---- MODULE Spec2Model ----
(***************************************************************************)
(* A model of the newsletter production pipeline of ai-editor-2.0:         *)
(*   - the chained pipeline job        (workers/jobs/pipeline.py)          *)
(*   - the Pivot 5 slot selector       (workers/jobs/slot_selection.py)    *)
(*   - the Issue status life cycle     (signal_decoration.py,              *)
(*     signal_html_compile.py, scheduled_send_checker.py)                  *)
(* Each part has its own specification; the variables of the other parts   *)
(* stay at their initial values.                                           *)
(***************************************************************************)
EXTENDS Integers, Sequences, FiniteSets, TLC

\* ------------------------------------------------------------------------
\* Bounds of the model
\* ------------------------------------------------------------------------

\* Largest "articles_ingested" count an ingest stage reports.
MaxIngested == 2

\* Number of slots the selector fills (the job fills 5: range(1, 6)).
NumSlots == 3

\* Latest reading of the clock, in sweep periods.
MaxClock == 2

\* Number of slots the prefilter classifies for (the job has 5 blocks).
NumPrefilterSlots == 2

\* Number of prefilter runs over the same input.
MaxRuns == 2

\* The longest list of quick-hits the model returns for SIGNALS.
MaxSignals == 2

VARIABLES
    \* ---- pipeline.py: run_full_pipeline
    pipeline_pc,          \* the statement run_full_pipeline is at
    stage_state,          \* per stage: notrun / running / returned / raised / skipped / hung
    pipeline_results,     \* the `results` dict
    articles_ingested,    \* local of run_full_pipeline
    direct_feeds_ingested, \* local of run_full_pipeline
    \* ---- slot_selection.py: select_slots
    sel_pc,               \* "slots" / "subject" / "write" / "done"
    slot,                 \* the loop variable of `for slot in range(1, 6)`
    selected_slots_table, \* the Selected Slots table: the Issues of the last 14 days
    recent_data,          \* _extract_recent_issues_data(recent_issues)
    cumulative_state,     \* selectedToday / selectedCompanies / selectedSources
    issue_data,           \* the Issue row being built
    headlines,            \* headlines of the slots filled so far
    sel_results,          \* the `results` dict of select_slots
    \* ---- the Issue tables and the jobs that move an Issue's status
    signal_issues,        \* Signal Selected Slots: issue_id -> status, compiled_html
    signal_stories,       \* Signal Issue Stories: issue_id -> a decorated story exists
    decorate_results,     \* the `results` dict of the last decorate_signal_stories
    compile_results,      \* the `results` dict of the last compile_signal_html
    issues_final,         \* Newsletter Issues Final: record -> status, scheduled_send_time
    now_utc,              \* the last reading of datetime.now(timezone.utc)
    mautic_queue,         \* send_via_mautic jobs enqueued on the 'high' queue
    sweep_results,        \* the `results` dict of the last check_scheduled_newsletters
    \* ---- prefilter.py: prefilter_stories
    pf_pc,                \* "gather" / "ai" / "company" / "finish" / "done" / "failed" / "crashed"
    pf_slot,              \* the slot whose block prefilter_stories is at
    pf_run,               \* number of the run; stands for date_prefiltered_iso
    prefilter_log,        \* the Pre-Filter Log table, in creation order
    yesterday_issue,      \* what get_yesterday_issue returns
    yesterday_data,       \* _extract_yesterday_data(yesterday_issue)
    slot_batch,           \* slot_batches[n]: the same articles for every slot
    written_story_slot_pairs, \* the (story_id, slot) pairs already built
    slot1_ai_matches,     \* what the classifier returned for slot 1
    pf_attempted,         \* the slots whose classifier call was made
    pf_results            \* the `results` dict of prefilter_stories

pipeline_vars ==
    <<pipeline_pc, stage_state, pipeline_results, articles_ingested,
      direct_feeds_ingested>>

sel_vars ==
    <<sel_pc, slot, selected_slots_table, recent_data, cumulative_state,
      issue_data, headlines, sel_results>>

issue_vars ==
    <<signal_issues, signal_stories, decorate_results, compile_results,
      issues_final, now_utc, mautic_queue, sweep_results>>

\* select_signal_slots (workers/jobs/signal_slot_selection.py)
VARIABLES
    sig_pc,                  \* "sections", "subject", "write", "done"
    sig_pos,                 \* position in SIGNAL_SELECTION_ORDER
    used_pivot_ids,          \* get_signal_used_pivot_ids(14)
    excluded_pivot_ids,      \* used_pivot_ids plus the selections of this run
    current_run_selections,  \* slot -> the selections recorded for it
    signal_issue_data,       \* the fields of the Issue being built
    signal_slots_table,      \* the rows create_signal_issue created
    signal_results           \* the results dict of the run

sig_vars ==
    <<sig_pc, sig_pos, used_pivot_ids, excluded_pivot_ids, current_run_selections,
      signal_issue_data, signal_slots_table, signal_results>>

pf_vars ==
    <<pf_pc, pf_slot, pf_run, prefilter_log, yesterday_issue, yesterday_data,
      slot_batch, written_story_slot_pairs, slot1_ai_matches, pf_attempted,
      pf_results>>

\* get_next_issue_date, get_signal_issue_date
VARIABLES
    date_pc,                 \* "start", "pivot", "done"
    utc_now,                 \* the hour of the run, counted in UTC from a Monday 00:00
    dst,                     \* whether America/New_York observes daylight time
    issue_date_iso,          \* the day get_next_issue_date returned
    signal_issue_date_iso    \* the day get_signal_issue_date returned

date_vars == <<date_pc, utc_now, dst, issue_date_iso, signal_issue_date_iso>>

\* decorate_stories (workers/jobs/decoration.py)
VARIABLES
    dec_pc,                  \* "start", "slots", "status", "done", "crashed"
    dec_slot,                \* the slot of the loop
    dec_run,                 \* the number of the run
    pivot_issue,             \* the Issue row of Selected Slots the job reads
    issue_stories,           \* the rows of Newsletter Issue Stories
    dec_results              \* the results dict of the run

dec_vars == <<dec_pc, dec_slot, dec_run, pivot_issue, issue_stories, dec_results>>

\* The HTML of compile_signal_html (workers/jobs/signal_html_compile.py)
VARIABLES
    html_pc,                 \* "first", "second", "done"
    html_now,                \* the position of the wall clock in Instants
    html_issue,              \* the fields of the Issue and its stories
    first_html,              \* the HTML of the first compile
    second_html              \* the HTML of the compile that was run again

html_vars == <<html_pc, html_now, html_issue, first_html, second_html>>

\* ExecutionLogger.complete (workers/utils/execution_logger.py)
VARIABLES
    log_pc,                  \* "call", "connect", "insert", "finally", "returned", "raised"
    log_status,              \* the status argument: "success" or "error"
    log_summary,             \* self.summary: "empty", "json" or "not_json"
    database_url,            \* whether DATABASE_URL is set
    node_env,                \* NODE_ENV
    connection,              \* self._connection: its state ("none", "open", "closed") and sslmode
    log_entries,             \* the number of entries accumulated
    execution_logs           \* the rows of the execution_logs table

log_vars ==
    <<log_pc, log_status, log_summary, database_url, node_env, connection,
      log_entries, execution_logs>>

\* browserbase_retry (workers/jobs/browserbase_retry.py)
VARIABLES
    bb_pc,                   \* "start", "loop", "done"
    bb_run,                  \* the number of the run, all on one day
    api_key,                 \* whether BROWSERBASE_API_KEY is set
    selects,                 \* Newsletter Selects: record id -> fields
    bb_records,              \* the records the query of this run returned
    bb_index,                \* position of the loop in bb_records
    scrape_calls,            \* record id -> calls of scraper.scrape for its url
    bb_results               \* the results dict of the run

bb_vars ==
    <<bb_pc, bb_run, api_key, selects, bb_records, bb_index, scrape_calls, bb_results>>

\* MauticClient (app/workers/utils/mautic.py)
VARIABLES
    gateway_answers,         \* status code the gateway gives to the n-th request
    requests_made,           \* calls of requests.request so far
    transport_id,            \* MAUTIC_TRANSPORT_ID, "" when not configured
    mautic_call,             \* the last call of the client: operation, first request
    mautic_outcome           \* "", "returned", "raised", "false"

mautic_vars ==
    <<gateway_answers, requests_made, transport_id, mautic_call, mautic_outcome>>

\* backfill (workers/backfill_72h.py)
VARIABLES
    bf_pc,                   \* "start", "fetched", "done"
    bf_run,                  \* the number of the run
    articles_table,          \* Articles All Ingested: the pivot_id of each row
    articles_with_id,        \* the articles of this run, by pivot_id
    existing_pivot_ids,      \* what fetch_existing_pivot_ids returned
    bf_created               \* records created by this run

bf_vars ==
    <<bf_pc, bf_run, articles_table, articles_with_id, existing_pivot_ids, bf_created>>

\* archive_newsletter_issue_ai_editor (workers/utils/airtable.py)
VARIABLES
    archive_table,           \* Newsletter Issues Archive: the rows, in order
    arch_pc,                 \* caller -> "idle", "checked", "returned", "raised"
    arch_data,               \* caller -> the data of its call
    arch_existing,           \* caller -> row found by table.all, 0 for none
    arch_calls               \* calls made so far

arch_vars ==
    <<archive_table, arch_pc, arch_data, arch_existing, arch_calls>>

\* ImageClient and the image jobs (workers/utils/images.py, workers/jobs/image_generation.py)
VARIABLES
    gemini_api_key,          \* whether GEMINI_API_KEY is set
    openai_api_key,          \* whether OPENAI_API_KEY is set
    decorations,             \* decoration table: record id -> image fields
    img_job,                 \* the last job: "", "generate_images", "regenerate_image"
    img_pc,                  \* how it ended: "", "returned", "raised"
    img_call,                \* what the last generate_image did
    img_runs                 \* jobs run so far

img_vars ==
    <<gemini_api_key, openai_api_key, decorations, img_job, img_pc, img_call, img_runs>>

\* ClaudePrefilter._run_slot_prefilter (workers/utils/claude_prefilter.py)
VARIABLES
    cl_pc,                   \* "start", "chunk", "returned", "raised"
    cl_chunks,               \* the number of chunks of the articles
    cl_chunk,                \* the chunk being classified
    retry_count,             \* retry_count of the current call
    chunk_attempts,          \* chunk -> outcomes of its API calls, in order
    wait_time,               \* the last sleep before a retry, in seconds
    all_matches              \* matches collected so far

cl_vars ==
    <<cl_pc, cl_chunks, cl_chunk, retry_count, chunk_attempts, wait_time, all_matches>>

\* check_scheduled_newsletters run by several workers (workers/jobs/scheduled_send_checker.py)
VARIABLES
    final_status,            \* Newsletter Issues Final: record -> status
    final_due,               \* record -> whether its scheduled_send_time has passed
    sw_pc,                   \* worker -> "idle", "loop", "returned"
    sw_scheduled,            \* worker -> the records its query returned, still to handle
    send_jobs,               \* record -> send jobs enqueued because of it
    sw_started               \* sweeps started so far

sw_vars ==
    <<final_status, final_due, sw_pc, sw_scheduled, send_jobs, sw_started>>

vars == <<pipeline_vars, sel_vars, issue_vars, pf_vars, sig_vars, date_vars, dec_vars, html_vars, log_vars, bb_vars, mautic_vars, bf_vars, arch_vars, img_vars, cl_vars, sw_vars>>

\* A step of one job leaves the state of the other jobs alone.
OnlyPipeline == UNCHANGED <<sel_vars, issue_vars, pf_vars, sig_vars, date_vars, dec_vars, html_vars, log_vars, bb_vars, mautic_vars, bf_vars, arch_vars, img_vars, cl_vars, sw_vars>>

OnlySelector == UNCHANGED <<pipeline_vars, issue_vars, pf_vars, sig_vars, date_vars, dec_vars, html_vars, log_vars, bb_vars, mautic_vars, bf_vars, arch_vars, img_vars, cl_vars, sw_vars>>

OnlyIssues == UNCHANGED <<pipeline_vars, sel_vars, pf_vars, sig_vars, date_vars, dec_vars, html_vars, log_vars, bb_vars, mautic_vars, bf_vars, arch_vars, img_vars, cl_vars, sw_vars>>

OnlyPrefilter == UNCHANGED <<pipeline_vars, sel_vars, issue_vars, sig_vars, date_vars, dec_vars, html_vars, log_vars, bb_vars, mautic_vars, bf_vars, arch_vars, img_vars, cl_vars, sw_vars>>

OnlySignalSelector == UNCHANGED <<pipeline_vars, sel_vars, issue_vars, pf_vars, date_vars, dec_vars, html_vars, log_vars, bb_vars, mautic_vars, bf_vars, arch_vars, img_vars, cl_vars, sw_vars>>

OnlyIssueDate == UNCHANGED <<pipeline_vars, sel_vars, issue_vars, pf_vars, sig_vars, dec_vars, html_vars, log_vars, bb_vars, mautic_vars, bf_vars, arch_vars, img_vars, cl_vars, sw_vars>>

OnlyDecorator == UNCHANGED <<pipeline_vars, sel_vars, issue_vars, pf_vars, sig_vars, date_vars, html_vars, log_vars, bb_vars, mautic_vars, bf_vars, arch_vars, img_vars, cl_vars, sw_vars>>

OnlyHtml == UNCHANGED <<pipeline_vars, sel_vars, issue_vars, pf_vars, sig_vars, date_vars, dec_vars, log_vars, bb_vars, mautic_vars, bf_vars, arch_vars, img_vars, cl_vars, sw_vars>>

OnlyLogger == UNCHANGED <<pipeline_vars, sel_vars, issue_vars, pf_vars, sig_vars, date_vars, dec_vars, html_vars, bb_vars, mautic_vars, bf_vars, arch_vars, img_vars, cl_vars, sw_vars>>

OnlyRetry == UNCHANGED <<pipeline_vars, sel_vars, issue_vars, pf_vars, sig_vars, date_vars, dec_vars, html_vars, log_vars, mautic_vars, bf_vars, arch_vars, img_vars, cl_vars, sw_vars>>

OnlyMautic == UNCHANGED <<pipeline_vars, sel_vars, issue_vars, pf_vars, sig_vars, date_vars, dec_vars, html_vars, log_vars, bb_vars, bf_vars, arch_vars, img_vars, cl_vars, sw_vars>>

OnlyBackfill == UNCHANGED <<pipeline_vars, sel_vars, issue_vars, pf_vars, sig_vars, date_vars, dec_vars, html_vars, log_vars, bb_vars, mautic_vars, arch_vars, img_vars, cl_vars, sw_vars>>

OnlyArchive == UNCHANGED <<pipeline_vars, sel_vars, issue_vars, pf_vars, sig_vars, date_vars, dec_vars, html_vars, log_vars, bb_vars, mautic_vars, bf_vars, img_vars, cl_vars, sw_vars>>

OnlyImages == UNCHANGED <<pipeline_vars, sel_vars, issue_vars, pf_vars, sig_vars, date_vars, dec_vars, html_vars, log_vars, bb_vars, mautic_vars, bf_vars, arch_vars, cl_vars, sw_vars>>

OnlyClassifier == UNCHANGED <<pipeline_vars, sel_vars, issue_vars, pf_vars, sig_vars, date_vars, dec_vars, html_vars, log_vars, bb_vars, mautic_vars, bf_vars, arch_vars, img_vars, sw_vars>>

OnlySweepers == UNCHANGED <<pipeline_vars, sel_vars, issue_vars, pf_vars, sig_vars, date_vars, dec_vars, html_vars, log_vars, bb_vars, mautic_vars, bf_vars, arch_vars, img_vars, cl_vars>>

\* ========================================================================
\* workers/jobs/pipeline.py
\* ========================================================================

\* The stages in the order run_full_pipeline calls them.
StageOrderSwapped ==
    <<"ingest", "direct_feed_ingest", "score", "extract_newsletters",
      "prefilter", "browserbase_retry">>

StageOrder ==
    <<"ingest", "direct_feed_ingest", "score", "extract_newsletters",
      "browserbase_retry", "prefilter">>

Stages == {StageOrder[i] : i \in 1..Len(StageOrder)}

StageIndex(s) == CHOOSE i \in 1..Len(StageOrder) : StageOrder[i] = s

\* The key of `results` a stage's outcome is stored under.
ResultKey(s) ==
    CASE s = "ingest"              -> "ingest"
      [] s = "direct_feed_ingest"  -> "direct_feeds"
      [] s = "score"               -> "ai_scoring"
      [] s = "extract_newsletters" -> "newsletter_extraction"
      [] s = "browserbase_retry"   -> "browserbase_retry"
      [] s = "prefilter"           -> "pre_filter"

ResultKeys == {ResultKey(s) : s \in Stages}

\* A stage whose call sits in its own try/except inside run_full_pipeline.
AllNonBlocking(s) == TRUE

NoneNonBlocking(s) == FALSE

IsNonBlocking(s) == s \in {"extract_newsletters", "browserbase_retry"}

\* One entry of `results`: None, a stage's result dict, the skip marker or
\* the {"error", "status": "failed"} dict of a non-blocking stage.
\* articles_ingested = -1 stands for a result dict without that key.
NoEntry == [kind |-> "none", articles_ingested |-> -1, error |-> ""]

ResultEntry(n) == [kind |-> "result", articles_ingested |-> n, error |-> ""]

SkippedEntry == [kind |-> "skipped", articles_ingested |-> -1, error |-> "no_new_articles"]

FailedEntry(e) == [kind |-> "failed", articles_ingested |-> -1, error |-> e]

\* str(e) of the exception a stage raises.
ErrorOf(s) == "error in " \o s

\* dict.get("articles_ingested", 0)
GetArticlesIngested(entry) ==
    IF entry.articles_ingested = -1 THEN 0 ELSE entry.articles_ingested

\* What a stage may return: the ingest stages a dict with or without a
\* count, the others a dict without one.
StageReturns(s) ==
    IF s \in {"ingest", "direct_feed_ingest"}
    THEN {ResultEntry(n) : n \in (-1)..MaxIngested}
    ELSE {ResultEntry(-1)}

total_ingested == articles_ingested + direct_feeds_ingested

\* The guard of the scoring stage.
ScoreGuardIngestOnly == articles_ingested > 0

ScoreGuard == total_ingested > 0

\* The statement after stage s finished: the next stage, or the end of the
\* try block.
AfterStage(s) ==
    IF StageIndex(s) < Len(StageOrder) THEN StageOrder[StageIndex(s) + 1]
    ELSE "completed"

PipelineInit ==
    /\ pipeline_pc = StageOrder[1]
    /\ stage_state = [s \in Stages |-> "notrun"]
    /\ pipeline_results =
          [entries |-> [k \in ResultKeys |-> NoEntry],
           status |-> "running",
           error |-> "",
           pipeline_completed_at |-> FALSE]
    /\ articles_ingested = 0
    /\ direct_feeds_ingested = 0

\* run_full_pipeline calls the stage function of s.
CallStage(s) ==
    /\ OnlyPipeline
    /\ pipeline_pc = s
    /\ stage_state[s] = "notrun"
    /\ s = "score" => ScoreGuard
    /\ stage_state' = [stage_state EXCEPT ![s] = "running"]
    /\ UNCHANGED <<pipeline_pc, pipeline_results, articles_ingested,
                   direct_feeds_ingested>>

\* The else branch of the scoring guard.
SkipScoring ==
    /\ OnlyPipeline
    /\ pipeline_pc = "score"
    /\ stage_state["score"] = "notrun"
    /\ ~ScoreGuard
    /\ stage_state' = [stage_state EXCEPT !["score"] = "skipped"]
    /\ pipeline_results' =
          [pipeline_results EXCEPT !.entries["ai_scoring"] = SkippedEntry]
    /\ pipeline_pc' = AfterStage("score")
    /\ UNCHANGED <<articles_ingested, direct_feeds_ingested>>

\* The stage function returns r.
StageReturn(s, r) ==
    /\ OnlyPipeline
    /\ stage_state[s] = "running"
    /\ r \in StageReturns(s)
    /\ stage_state' = [stage_state EXCEPT ![s] = "returned"]
    /\ pipeline_results' =
          [pipeline_results EXCEPT !.entries[ResultKey(s)] = r]
    /\ articles_ingested' =
          IF s = "ingest" THEN GetArticlesIngested(r) ELSE articles_ingested
    /\ direct_feeds_ingested' =
          IF s = "direct_feed_ingest" THEN GetArticlesIngested(r)
          ELSE direct_feeds_ingested
    /\ pipeline_pc' = AfterStage(s)

\* The stage function (or its import) raises.
StageRaise(s) ==
    /\ OnlyPipeline
    /\ stage_state[s] = "running"
    /\ stage_state' = [stage_state EXCEPT ![s] = "raised"]
    /\ IF IsNonBlocking(s)
       THEN /\ pipeline_results' =
                  [pipeline_results EXCEPT
                      !.entries[ResultKey(s)] = FailedEntry(ErrorOf(s))]
            /\ pipeline_pc' = AfterStage(s)
       ELSE /\ pipeline_results' =
                  [pipeline_results EXCEPT
                      !.error = ErrorOf(s), !.status = "failed"]
            /\ pipeline_pc' = "finally"
    /\ UNCHANGED <<articles_ingested, direct_feeds_ingested>>

\* The stage function never returns. The call is a plain synchronous call:
\* run_full_pipeline sets no timer and has no handler that ends it.
StageHangs(s) ==
    /\ OnlyPipeline
    /\ stage_state[s] = "running"
    /\ stage_state' = [stage_state EXCEPT ![s] = "hung"]
    /\ UNCHANGED <<pipeline_pc, pipeline_results, articles_ingested,
                   direct_feeds_ingested>>

\* results["status"] = "completed" at the end of the try block.
PipelineCompleted ==
    /\ OnlyPipeline
    /\ pipeline_pc = "completed"
    /\ pipeline_results' = [pipeline_results EXCEPT !.status = "completed"]
    /\ pipeline_pc' = "finally"
    /\ UNCHANGED <<stage_state, articles_ingested, direct_feeds_ingested>>

\* The finally block, then `return results` or the re-raise.
PipelineFinally ==
    /\ OnlyPipeline
    /\ pipeline_pc = "finally"
    /\ pipeline_results' =
          [pipeline_results EXCEPT !.pipeline_completed_at = TRUE]
    /\ pipeline_pc' =
          IF pipeline_results.status = "completed" THEN "returned" ELSE "raised"
    /\ UNCHANGED <<stage_state, articles_ingested, direct_feeds_ingested>>

PipelineNext ==
    \/ \E s \in Stages : CallStage(s)
    \/ SkipScoring
    \/ \E s \in Stages : \E r \in StageReturns(s) : StageReturn(s, r)
    \/ \E s \in Stages : StageRaise(s)
    \/ \E s \in Stages : StageHangs(s)
    \/ PipelineCompleted
    \/ PipelineFinally

\* ========================================================================
\* workers/jobs/slot_selection.py
\* ========================================================================

Slots == 1..NumSlots

Range(f) == {f[i] : i \in DOMAIN f}

\* The rows of the Pre-Filter Log the store may hold, freshest first
\* (get_prefilter_candidates sorts by -date_og_published). Rows 1 and 2 are
\* one article ingested twice: the same pivotId under a new storyID.
PrefilterLog ==
    << [storyID |-> "s1", pivotId |-> "p1", headline |-> "Alpha", source_id |-> "TC"],
       [storyID |-> "s2", pivotId |-> "p1", headline |-> "ALPHA", source_id |-> "TC"],
       [storyID |-> "s3", pivotId |-> "p3", headline |-> "Beta", source_id |-> "TC"] >>

RECURSIVE RowsFrom(_, _)
RowsFrom(i, S) ==
    IF i > Len(PrefilterLog) THEN <<>>
    ELSE (IF i \in S THEN <<PrefilterLog[i]>> ELSE <<>>) \o RowsFrom(i + 1, S)

\* What get_prefilter_candidates(slot, freshness_days) may return: any part
\* of the log, in the log's order.
CandidateLists == {RowsFrom(1, S) : S \in SUBSET (1..Len(PrefilterLog))}

\* str.lower().strip() on the headlines of the model.
Lower(h) ==
    CASE h = "Alpha" -> "alpha"
      [] h = "ALPHA" -> "alpha"
      [] h = "Beta"  -> "beta"
      [] h = "BETA"  -> "beta"
      [] h = "Old"   -> "old"
      [] OTHER       -> h

\* The three fields of one slot of an Issue row; "" is an absent field.
EmptySlot == [headline |-> "", storyId |-> "", pivotId |-> ""]

SlotFields(h, s, p) == [headline |-> h, storyId |-> s, pivotId |-> p]

\* An Issue row written by an earlier run, with slot 1 filled.
EarlierIssue(id, f) ==
    [issue_id |-> id, status |-> "sent", subject_line |-> "",
     slots |-> [n \in Slots |-> IF n = 1 THEN f ELSE EmptySlot]]

\* The Issue row an earlier run of select_slots wrote for the same next
\* issue date: the same issue_id, status 'pending', slot 1 filled.
TodaysIssue(f) ==
    [issue_id |-> "Pivot 5 - next", status |-> "pending", subject_line |-> "subject",
     slots |-> [n \in Slots |-> IF n = 1 THEN f ELSE EmptySlot]]

\* What get_recent_sent_issues(14) may return at the start of a run: no
\* Issue, or one whose slot 1 shares only the headline (in another case),
\* only the storyID, or only the pivotId with a row of the log, or the
\* Issue of an earlier run for the same date.
InitialTables ==
    { <<>>,
      <<EarlierIssue("Pivot 5 - Jan 01", SlotFields("BETA", "s0", "p0"))>>,
      <<EarlierIssue("Pivot 5 - Jan 02", SlotFields("Old", "s1", "p0"))>>,
      <<EarlierIssue("Pivot 5 - Jan 03", SlotFields("Old", "s0", "p3"))>>,
      <<TodaysIssue(SlotFields("Beta", "s3", "p3"))>> }

\* _extract_recent_issues_data: the headlines, storyIds and pivotIds of all
\* slots of the recent Issues, empty fields left out.
ExtractRecentIssuesData(issues) ==
    [headlines |-> {issues[k].slots[n].headline : k \in DOMAIN issues, n \in Slots} \ {""},
     storyIds  |-> {issues[k].slots[n].storyId : k \in DOMAIN issues, n \in Slots} \ {""},
     pivotIds  |-> {issues[k].slots[n].pivotId : k \in DOMAIN issues, n \in Slots} \ {""}]

\* select_slots.is_duplicate
IsDuplicate(c) ==
    LET excluded_ids == recent_data.storyIds \cup Range(cumulative_state.selectedToday)
        recent_headlines == {Lower(h) : h \in recent_data.headlines}
    IN  \/ c.storyID \in excluded_ids
        \/ (Lower(c.headline) # "" /\ Lower(c.headline) \in recent_headlines)
        \/ (c.pivotId # "" /\ c.pivotId \in recent_data.pivotIds)

AvailableCandidates(candidates) ==
    SelectSeq(candidates, LAMBDA c : ~IsDuplicate(c))

\* What claude.select_slot may return for a slot: any story ID and headline
\* of the log, with or without a company, and a source.
Companies == {"None", "OpenAI"}

Selections ==
    [selected_id : {PrefilterLog[i].storyID : i \in DOMAIN PrefilterLog},
     selected_headline : {PrefilterLog[i].headline : i \in DOMAIN PrefilterLog},
     selected_company : Companies,
     selected_source : {PrefilterLog[i].source_id : i \in DOMAIN PrefilterLog}]

\* Index of the first candidate with this storyID, 0 if there is none.
FirstByStoryID(available, id) ==
    IF \E i \in DOMAIN available : available[i].storyID = id
    THEN CHOOSE i \in DOMAIN available :
            /\ available[i].storyID = id
            /\ \A j \in 1..(i - 1) : available[j].storyID # id
    ELSE 0

\* Index of the first candidate with this headline (lower-cased, stripped).
FirstByHeadline(available, h) ==
    IF \E i \in DOMAIN available : Lower(available[i].headline) = Lower(h)
    THEN CHOOSE i \in DOMAIN available :
            /\ Lower(available[i].headline) = Lower(h)
            /\ \A j \in 1..(i - 1) : Lower(available[j].headline) # Lower(h)
    ELSE 0

\* The storyID and pivotId recorded for a selection: the matched candidate's
\* (by storyID, else by headline), else the returned ID and no pivotId.
MatchSelection(selection, available) ==
    LET by_id == FirstByStoryID(available, selection.selected_id)
        by_headline ==
            IF by_id = 0 /\ selection.selected_headline # ""
            THEN FirstByHeadline(available, selection.selected_headline)
            ELSE 0
    IN  IF by_id # 0
        THEN [story_id |-> selection.selected_id,
              pivot_id |-> available[by_id].pivotId, matched |-> TRUE]
        ELSE IF by_headline # 0
        THEN [story_id |-> available[by_headline].storyID,
              pivot_id |-> available[by_headline].pivotId, matched |-> TRUE]
        ELSE [story_id |-> selection.selected_id, pivot_id |-> "", matched |-> FALSE]

SelectorInit ==
    /\ sel_pc = "slots"
    /\ slot = 1
    /\ selected_slots_table \in InitialTables
    /\ recent_data = ExtractRecentIssuesData(selected_slots_table)
    /\ cumulative_state =
          [selectedToday |-> <<>>, selectedCompanies |-> <<>>,
           selectedSources |-> [s \in {PrefilterLog[i].source_id : i \in DOMAIN PrefilterLog} |-> 0]]
    /\ issue_data =
          [issue_id |-> "Pivot 5 - next", status |-> "pending",
           subject_line |-> "", slots |-> [n \in Slots |-> EmptySlot]]
    /\ headlines = <<>>
    /\ sel_results =
          [slots_filled |-> 0, subject_line |-> "", record_id |-> "", errors |-> <<>>]

\* End of one iteration of the slot loop.
LoopAdvance ==
    /\ slot' = slot + 1
    /\ sel_pc' = IF slot = NumSlots THEN "subject" ELSE "slots"

\* An iteration that ends in `continue` or in the except handler.
SlotSkipped(error) ==
    /\ sel_results' =
          [sel_results EXCEPT !.errors = Append(@, [slot |-> slot, error |-> error])]
    /\ LoopAdvance
    /\ UNCHANGED <<selected_slots_table, recent_data, cumulative_state,
                   issue_data, headlines>>

\* cumulative_state["selectedToday"] after a slot recorded this story.
SelectedTodayUnchanged(story_id) == cumulative_state.selectedToday

SelectedTodayAfter(story_id) ==
    IF story_id # ""
    THEN Append(cumulative_state.selectedToday, story_id)
    ELSE cumulative_state.selectedToday

\* An iteration that records the selection.
SlotRecorded(selection, available) ==
    LET m == MatchSelection(selection, available)
    IN  /\ cumulative_state' =
              [selectedToday |-> SelectedTodayAfter(m.story_id),
               selectedCompanies |->
                  IF selection.selected_company # "None"
                  THEN Append(cumulative_state.selectedCompanies, selection.selected_company)
                  ELSE cumulative_state.selectedCompanies,
               selectedSources |->
                  IF selection.selected_source # ""
                  THEN [cumulative_state.selectedSources EXCEPT
                           ![selection.selected_source] = @ + 1]
                  ELSE cumulative_state.selectedSources]
        /\ issue_data' =
              [issue_data EXCEPT
                  !.slots[slot] =
                      SlotFields(selection.selected_headline, m.story_id, m.pivot_id)]
        /\ headlines' = Append(headlines, selection.selected_headline)
        /\ sel_results' = [sel_results EXCEPT !.slots_filled = @ + 1]
        /\ LoopAdvance
        /\ UNCHANGED <<selected_slots_table, recent_data>>

\* One iteration of `for slot in range(1, 6)`.
ProcessSlot ==
    /\ OnlySelector
    /\ sel_pc = "slots"
    /\ \E candidates \in CandidateLists :
          IF candidates = <<>>
          THEN SlotSkipped("No candidates available")
          ELSE LET available == AvailableCandidates(candidates)
               IN  IF available = <<>>
                   THEN SlotSkipped("All candidates already selected")
                   ELSE \/ \E selection \in Selections :
                              SlotRecorded(selection, available)
                        \/ SlotSkipped("selection error")
                        \/ SlotSkipped("exception")

\* Step 5: the subject line, from the headlines if there are any.
GenerateSubjectLine ==
    /\ OnlySelector
    /\ sel_pc = "subject"
    /\ sel_pc' = "write"
    /\ IF headlines # <<>>
       THEN \/ /\ issue_data' = [issue_data EXCEPT !.subject_line = "subject"]
               /\ sel_results' = [sel_results EXCEPT !.subject_line = "subject"]
            \/ /\ sel_results' =
                     [sel_results EXCEPT
                         !.errors = Append(@, [slot |-> 0, error |-> "subject_line"])]
               /\ UNCHANGED issue_data
       ELSE UNCHANGED <<issue_data, sel_results>>
    /\ UNCHANGED <<slot, selected_slots_table, recent_data, cumulative_state, headlines>>

\* The Issue is written when a slot was filled.
WriteOnlyCompleteIssue == sel_results.slots_filled = NumSlots

ShouldWriteIssue == sel_results.slots_filled > 0

\* Step 6: write_selected_slots(issue_data) when a slot was filled.
WriteSelectedSlots ==
    /\ OnlySelector
    /\ sel_pc = "write"
    /\ sel_pc' = "done"
    /\ IF ShouldWriteIssue
       THEN \/ /\ selected_slots_table' = Append(selected_slots_table, issue_data)
               /\ sel_results' = [sel_results EXCEPT !.record_id = "rec"]
            \/ /\ sel_results' =
                     [sel_results EXCEPT
                         !.errors = Append(@, [slot |-> 0, error |-> "write_slots"])]
               /\ UNCHANGED selected_slots_table
       ELSE UNCHANGED <<selected_slots_table, sel_results>>
    /\ UNCHANGED <<slot, recent_data, cumulative_state, issue_data, headlines>>

SelectorNext ==
    \/ ProcessSlot
    \/ GenerateSubjectLine
    \/ WriteSelectedSlots

\* ========================================================================
\* The Issue tables: workers/jobs/signal_decoration.py,
\* workers/jobs/signal_html_compile.py, workers/jobs/scheduled_send_checker.py
\* ========================================================================

\* The issue_id labels of the Signal Selected Slots table, most recent
\* issue_date first (the order of sort=['-issue_date']).
SignalIssuesByDate == <<"Signal - Jan 13", "Signal - Jan 12">>

SignalIssueIds == Range(SignalIssuesByDate)

\* A label no record of the table carries.
UnknownIssueId == "Signal - Jan 01"

AbsentIssue == [status |-> "absent", compiled_html |-> FALSE]

\* The row select_signal_slots creates: status 'pending', no HTML.
PendingIssue == [status |-> "pending", compiled_html |-> FALSE]

\* One full-story section and one quick-hit section of the nine.
SIGNAL_SECTIONS == <<"top_story", "signal_1">>

\* The label of the first row, by issue_date descending, with this status;
\* "" if there is none.
FirstWithStatus(st) ==
    IF \E i \in DOMAIN SignalIssuesByDate :
          signal_issues[SignalIssuesByDate[i]].status = st
    THEN SignalIssuesByDate[
            CHOOSE i \in DOMAIN SignalIssuesByDate :
               /\ signal_issues[SignalIssuesByDate[i]].status = st
               /\ \A j \in 1..(i - 1) : signal_issues[SignalIssuesByDate[j]].status # st]
    ELSE ""

\* get_signal_issue_by_id: the row with this label, whatever its status.
GetSignalIssueById(issue_id) ==
    IF issue_id \in SignalIssueIds /\ signal_issues[issue_id].status # "absent"
    THEN issue_id
    ELSE ""

NoDecorateResults == [decorated |-> 0, issue_id |-> "", errors |-> {}]

NoCompileResults == [compiled |-> FALSE, issue_id |-> "", errors |-> {}]

NoSweepResults ==
    [found |-> 0, ready_to_send |-> 0, triggered |-> {}, not_yet_due |-> {},
     errors |-> {}]

\* decorate_signal_stories: the most recent pending Issue is decorated
\* section by section; its status becomes 'decorated' if a section was.
\* Of results["errors"] the model keeps the entries of the fatal and the
\* update_status steps.
DecorateSignalStories ==
    /\ OnlyIssues
    /\ UNCHANGED <<compile_results, issues_final, now_utc, mautic_queue, sweep_results>>
    /\ LET pending == FirstWithStatus("pending")
       IN  \/ \* get_signal_pending_issue raises: the exception is re-raised
              /\ decorate_results' = [NoDecorateResults EXCEPT !.errors = {"fatal"}]
              /\ UNCHANGED <<signal_issues, signal_stories>>
           \/ /\ pending = ""
              /\ decorate_results' = NoDecorateResults
              /\ UNCHANGED <<signal_issues, signal_stories>>
           \/ /\ pending # ""
              /\ \E decorated \in 0..Len(SIGNAL_SECTIONS) :
                    /\ signal_stories' =
                          [signal_stories EXCEPT ![pending] = @ \/ decorated > 0]
                    /\ IF decorated > 0
                       THEN \/ /\ signal_issues' =
                                     [signal_issues EXCEPT ![pending].status = "decorated"]
                               /\ decorate_results' =
                                     [decorated |-> decorated, issue_id |-> pending,
                                      errors |-> {}]
                            \/ \* update_signal_issue raises: recorded, not raised
                               /\ decorate_results' =
                                     [decorated |-> decorated, issue_id |-> pending,
                                      errors |-> {"update_status"}]
                               /\ UNCHANGED signal_issues
                       ELSE /\ decorate_results' =
                                  [decorated |-> 0, issue_id |-> pending,
                                   errors |-> {}]
                            /\ UNCHANGED signal_issues

\* The issue_id arguments of compile_signal_html; "" is None (auto-detect).
CompileArguments == {"", UnknownIssueId} \cup SignalIssueIds

\* The table after update_signal_issue raised: the record is as it was.
PartialUpdate(issue) == [signal_issues EXCEPT ![issue].status = "compiled"]

FailedUpdate(issue) == signal_issues

\* compile_signal_html(issue_id)
CompileSignalHtml(issue_id) ==
    /\ OnlyIssues
    /\ UNCHANGED <<signal_stories, decorate_results, issues_final, now_utc,
                   mautic_queue, sweep_results>>
    /\ LET issue == IF issue_id # ""
                    THEN GetSignalIssueById(issue_id)
                    ELSE FirstWithStatus("decorated")
           target_issue_id == IF issue_id # "" THEN issue_id ELSE issue
       IN  IF issue = ""
           THEN /\ compile_results' = [NoCompileResults EXCEPT !.errors = {"find_issue"}]
                /\ UNCHANGED signal_issues
           ELSE IF ~signal_stories[issue]
           THEN /\ compile_results' =
                      [compiled |-> FALSE, issue_id |-> target_issue_id,
                       errors |-> {"fetch_stories"}]
                /\ UNCHANGED signal_issues
           ELSE \/ /\ signal_issues' =
                         [signal_issues EXCEPT
                             ![issue] = [status |-> "compiled", compiled_html |-> TRUE]]
                   /\ compile_results' =
                         [compiled |-> TRUE, issue_id |-> target_issue_id, errors |-> {}]
                \/ \* the HTML build or update_signal_issue raises
                   /\ compile_results' =
                         [compiled |-> FALSE, issue_id |-> target_issue_id,
                          errors |-> {"fatal"}]
                   /\ signal_issues' = FailedUpdate(issue)

\* The send of a compiled Signal Issue: its status becomes 'sent'
\* (update_signal_issue: 'pending' -> 'decorated' -> 'compiled' -> 'sent').
SendSignalIssue ==
    /\ OnlyIssues
    /\ UNCHANGED <<signal_stories, decorate_results, compile_results, issues_final,
                   now_utc, mautic_queue, sweep_results>>
    /\ \E id \in SignalIssueIds :
          /\ signal_issues[id].status = "compiled"
          /\ signal_issues' = [signal_issues EXCEPT ![id].status = "sent"]

\* The records of Newsletter Issues Final, in the order table.all lists them.
FinalRecords == <<"rec1", "rec2">>

FinalIds == Range(FinalRecords)

\* Values of the scheduled_send_time field: absent, not a date, and ISO
\* strings with a Z suffix and milliseconds, with an offset, and with no zone.
ScheduledSendTimes ==
    {"", "tomorrow", "2026-01-09T10:05:00.000Z", "2026-01-09T05:10:00-05:00",
     "2026-01-09T10:05:00"}

\* parse_datetime raises on a string datetime.fromisoformat rejects.
ParseRaises(dt_string) == dt_string = "tomorrow"

\* parse_datetime returns a naive datetime when the string names no zone.
IsNaive(dt_string) == dt_string = "2026-01-09T10:05:00"

\* The instant parse_datetime returns, in sweep periods (5 minutes) after
\* 2026-01-09T10:00:00Z.
ParseDatetime(dt_string) ==
    CASE dt_string = "2026-01-09T10:05:00.000Z"  -> 1
      [] dt_string = "2026-01-09T05:10:00-05:00" -> 2
      [] dt_string = "2026-01-09T10:05:00"       -> 1
      [] OTHER                                   -> 0

AbsentFinal == [status |-> "absent", scheduled_send_time |-> ""]

ScheduledFinal(t) == [status |-> "scheduled", scheduled_send_time |-> t]

\* get_scheduled_newsletters: the records with status 'scheduled'.
GetScheduledNewsletters ==
    SelectSeq(FinalRecords, LAMBDA r : issues_final[r].status = "scheduled")

\* What happens when a due record is handled: both calls succeed,
\* update_status_to_next_send raises, or the enqueue in trigger_mautic_send
\* fails (logged, not raised).
SendOutcomes == {"queued", "update_raises", "enqueue_fails"}

\* `if scheduled_time <= now_utc`.
IsOverdue(t, now) == ParseDatetime(t) < now

IsDue(t, now) == ParseDatetime(t) <= now

\* The loop of check_scheduled_newsletters over scheduled[i..], from the
\* state st = [table, queue, results, aborted] reached so far.
RECURSIVE SweepFrom(_, _, _, _, _)
SweepFrom(i, scheduled, outcome, now, st) ==
    IF i > Len(scheduled) \/ st.aborted THEN st
    ELSE LET r == scheduled[i]
             t == issues_final[r].scheduled_send_time
             WithError(id) == [st EXCEPT !.results.errors = @ \cup {id}]
             next ==
                IF t = "" \/ ParseRaises(t) THEN WithError(r)
                ELSE IF IsNaive(t)
                \* comparing a naive datetime with now_utc raises TypeError,
                \* which only the outer handler catches
                THEN [WithError("fatal") EXCEPT !.aborted = TRUE]
                ELSE IF IsDue(t, now)
                THEN IF outcome[r] = "update_raises" THEN WithError(r)
                     ELSE [st EXCEPT
                             !.table[r].status = "next-send",
                             !.queue = IF outcome[r] = "queued" THEN @ + 1 ELSE @,
                             !.results.ready_to_send = @ + 1,
                             !.results.triggered = @ \cup {r}]
                ELSE [st EXCEPT !.results.not_yet_due = @ \cup {r}]
         IN  SweepFrom(i + 1, scheduled, outcome, now, next)

\* One run of check_scheduled_newsletters at the instant `now`, with the
\* given outcomes of the calls it makes.
SweepAt(now, outcome) ==
    LET scheduled == GetScheduledNewsletters
        st == SweepFrom(1, scheduled, outcome, now,
                        [table |-> issues_final, queue |-> mautic_queue,
                         results |-> [NoSweepResults EXCEPT !.found = Len(scheduled)],
                         aborted |-> FALSE])
    IN  /\ now_utc' = now
        /\ issues_final' = st.table
        /\ mautic_queue' = st.queue
        /\ sweep_results' = st.results

\* check_scheduled_newsletters, run by the scheduler every 5 minutes.
CheckScheduledNewsletters ==
    /\ OnlyIssues
    /\ UNCHANGED <<signal_issues, signal_stories, decorate_results, compile_results>>
    /\ \E now \in now_utc..MaxClock, outcome \in [FinalIds -> SendOutcomes] :
          SweepAt(now, outcome)

IssueInit ==
    /\ signal_issues \in [SignalIssueIds -> {AbsentIssue, PendingIssue}]
    /\ signal_stories = [id \in SignalIssueIds |-> FALSE]
    /\ decorate_results = NoDecorateResults
    /\ compile_results = NoCompileResults
    /\ issues_final \in
          [FinalIds -> {AbsentFinal} \cup {ScheduledFinal(t) : t \in ScheduledSendTimes}]
    /\ now_utc = 0
    /\ mautic_queue = 0
    /\ sweep_results = NoSweepResults

IssueNext ==
    \/ DecorateSignalStories
    \/ \E issue_id \in CompileArguments : CompileSignalHtml(issue_id)
    \/ SendSignalIssue
    \/ CheckScheduledNewsletters

\* The jobs that work on the Signal Selected Slots table.
SignalIssueNext ==
    \/ DecorateSignalStories
    \/ \E issue_id \in CompileArguments : CompileSignalHtml(issue_id)
    \/ SendSignalIssue

\* The job that works on Newsletter Issues Final.
SweepNext == CheckScheduledNewsletters

\* ========================================================================
\* workers/jobs/prefilter.py
\* ========================================================================

PrefilterSlots == 1..NumPrefilterSlots

\* Tier 1 companies of the slot 1 company filter.
NoTierOneCompanies == {}

SLOT_1_COMPANIES == {"openai", "google", "meta", "nvidia"}

\* The Newsletter Selects records inside the lookback window, as
\* get_newsletter_selects returns them (storyID is the record id). recA and
\* recB are one article ingested twice: the same pivot_id in two records.
NewsletterSelects ==
    << [storyID |-> "recA", pivotId |-> "p1", headline |-> "Nvidia Eyes $3B Deal"],
       [storyID |-> "recB", pivotId |-> "p1", headline |-> "Nvidia Eyes $3B Deal"],
       [storyID |-> "recC", pivotId |-> "p3", headline |-> "Robots at work"] >>

\* What get_queued_stories may return.
QueuedStoryLists == {<<>>, <<NewsletterSelects[3]>>}

\* The companies c of SLOT_1_COMPANIES with `c in headline.lower()`.
CompaniesInHeadline(headline) ==
    CASE headline = "Nvidia Eyes $3B Deal" -> {"nvidia"}
      [] OTHER                             -> {}

\* _merge_stories: queued first, then fresh, the first record of a storyID.
RECURSIVE MergeFrom(_, _, _)
MergeFrom(stories, i, merged) ==
    IF i > Len(stories) THEN merged
    ELSE LET story == stories[i]
             seen == {merged[k].storyID : k \in DOMAIN merged}
         IN  MergeFrom(stories, i + 1,
                       IF story.storyID # "" /\ story.storyID \notin seen
                       THEN Append(merged, story) ELSE merged)

MergeStories(fresh, queued) == MergeFrom(queued \o fresh, 1, <<>>)

\* The most recent sent Issue: none ("" in every field), or one whose slot 1
\* shares the storyID, only the pivotId, or only the headline with a record.
NoYesterdayData == [headlines |-> {}, storyIds |-> {}, pivotIds |-> {}]

YesterdayIssues ==
    { EmptySlot,
      SlotFields("Old", "recA", "p0"),
      SlotFields("Old", "rec0", "p1"),
      SlotFields("Robots at work", "rec0", "p0") }

\* _extract_yesterday_data, for an Issue with slot 1 filled.
ExtractYesterdayData(issue) ==
    [headlines |-> {issue.headline} \ {""},
     storyIds  |-> {issue.storyId} \ {""},
     pivotIds  |-> {issue.pivotId} \ {""}]

\* Phase 2: the article batch, without the stories of yesterday's Issue.
BuildBatch(all_stories, yesterday) ==
    LET kept == SelectSeq(all_stories, LAMBDA s : s.storyID \notin yesterday.storyIds)
    IN  [i \in DOMAIN kept |->
            [story_id |-> kept[i].storyID, pivot_id |-> kept[i].pivotId,
             headline |-> kept[i].headline]]

\* article_lookup.get(sid, {})
ArticleLookup(sid) ==
    IF \E i \in DOMAIN slot_batch : slot_batch[i].story_id = sid
    THEN LET a == slot_batch[CHOOSE i \in DOMAIN slot_batch : slot_batch[i].story_id = sid]
         IN  [pivot_id |-> a.pivot_id, headline |-> a.headline]
    ELSE [pivot_id |-> "", headline |-> ""]

\* The story ids a classifier call may return: any list, with repetitions,
\* with an empty id, with an id that is not in the batch.
MatchLists ==
    { <<>>, <<"recA">>, <<"recB">>, <<"recC">>, <<"recA", "recB">>,
      <<"recC", "recA">>, <<"recA", "recA">>, <<"", "recX">> }

\* _slot1_company_filter_batch: the story ids of the articles whose headline
\* mentions a Tier 1 company, in batch order.
Slot1CompanyFilterBatch(articles) ==
    LET hits == SelectSeq(articles,
                   LAMBDA a : CompaniesInHeadline(a.headline) \cap SLOT_1_COMPANIES # {})
    IN  [i \in DOMAIN hits |-> hits[i].story_id]

\* The loop of _write_slot_records over matches[i..]: the records built and
\* the pairs marked, from acc = [pairs, records].
RECURSIVE BuildSlotRecords(_, _, _, _)
BuildSlotRecords(slot_num, matches, i, acc) ==
    IF i > Len(matches) THEN acc
    ELSE LET sid == matches[i]
             pair == <<sid, slot_num>>
             article_data == ArticleLookup(sid)
             record == [storyID |-> sid, pivotId |-> article_data.pivot_id,
                        headline |-> article_data.headline,
                        date_prefiltered |-> pf_run, slot |-> slot_num]
         IN  BuildSlotRecords(slot_num, matches, i + 1,
                IF sid = "" \/ pair \in acc.pairs THEN acc
                ELSE [pairs |-> acc.pairs \cup {pair},
                      records |-> Append(acc.records, record)])

\* The table after write_prefilter_log_batch(records) returned.
StoreDropsWrite(table, records) == table

StoreAfterWrite(table, records) == table \o records

\* _write_slot_records(slot_num, matches, source); write_raises says whether
\* write_prefilter_log_batch raises.
WriteSlotRecords(slot_num, matches, source, write_raises) ==
    LET built == BuildSlotRecords(slot_num, matches, 1,
                    [pairs |-> written_story_slot_pairs, records |-> <<>>])
        n == Len(built.records)
        counted == [pf_results EXCEPT !.slot_counts[slot_num] = @ + n]
    IN  /\ written_story_slot_pairs' = built.pairs
        /\ IF n = 0
           THEN /\ pf_results' = counted
                /\ UNCHANGED prefilter_log
           ELSE IF write_raises
           THEN /\ pf_results' =
                      [counted EXCEPT !.errors = @ \cup
                          {[slot |-> slot_num, source |-> source, kind |-> "write_error"]}]
                /\ UNCHANGED prefilter_log
           ELSE /\ pf_results' = [counted EXCEPT !.written = @ + n]
                /\ prefilter_log' = StoreAfterWrite(prefilter_log, built.records)

NoPrefilterResults ==
    [processed |-> 0, eligible |-> 0, written |-> 0, skipped |-> 0, errors |-> {},
     slot_counts |-> [n \in PrefilterSlots |-> 0]]

\* Where prefilter_stories goes after the classifier block of a slot.
AfterAiBlock(s) ==
    IF s = 1 THEN [pc |-> "company", slot |-> 1]
    ELSE IF s < NumPrefilterSlots THEN [pc |-> "ai", slot |-> s + 1]
    ELSE [pc |-> "finish", slot |-> s + 1]

\* Where it goes after the company filter block of slot 1.
AfterCompanyBlock ==
    IF 1 < NumPrefilterSlots THEN [pc |-> "ai", slot |-> 2]
    ELSE [pc |-> "finish", slot |-> 2]

\* Where it goes when the classifier call of a slot raised.
AbortAfterClassifierError(s) == [pc |-> "failed", slot |-> s]

AfterClassifierError(s) == AfterAiBlock(s)

\* The state at the start of a run: nothing gathered, nothing written yet.
PrefilterStart ==
    /\ pf_pc = "gather"
    /\ pf_slot = 0
    /\ yesterday_data = NoYesterdayData
    /\ slot_batch = <<>>
    /\ written_story_slot_pairs = {}
    /\ slot1_ai_matches = <<>>
    /\ pf_attempted = {}
    /\ pf_results = NoPrefilterResults

PrefilterInit ==
    /\ PrefilterStart
    /\ pf_run = 1
    /\ prefilter_log = <<>>
    /\ yesterday_issue \in YesterdayIssues

\* Phases 1 and 2: fetch the stories and yesterday's Issue, build the batch.
PrefilterGather ==
    /\ OnlyPrefilter
    /\ pf_pc = "gather"
    /\ UNCHANGED <<pf_run, prefilter_log, yesterday_issue, written_story_slot_pairs,
                   slot1_ai_matches, pf_attempted>>
    /\ \/ \* get_newsletter_selects or get_articles_batch raises
          /\ pf_pc' = "failed"
          /\ pf_results' =
                [pf_results EXCEPT !.errors =
                    {[slot |-> 0, source |-> "", kind |-> "fatal"]}]
          /\ UNCHANGED <<pf_slot, yesterday_data, slot_batch>>
       \/ \E queued \in QueuedStoryLists,
             yesterday \in {ExtractYesterdayData(yesterday_issue), NoYesterdayData} :
             LET all_stories == MergeStories(NewsletterSelects, queued)
                 batch == BuildBatch(all_stories, yesterday)
             IN  /\ yesterday_data' = yesterday
                 /\ slot_batch' = batch
                 /\ pf_results' =
                       [pf_results EXCEPT
                           !.processed = Len(all_stories),
                           !.skipped = Len(all_stories) - Len(batch)]
                 /\ pf_pc' = "ai"
                 /\ pf_slot' = 1

\* The classifier block of one slot: prefilter_batch_slot_n, then
\* _write_slot_records.
ClassifySlot ==
    /\ OnlyPrefilter
    /\ pf_pc = "ai"
    /\ UNCHANGED <<pf_run, yesterday_issue, yesterday_data, slot_batch>>
    /\ pf_attempted' = pf_attempted \cup {pf_slot}
    /\ \/ \E matches \in MatchLists, write_raises \in BOOLEAN :
             /\ WriteSlotRecords(pf_slot, matches, "classifier", write_raises)
             /\ slot1_ai_matches' = IF pf_slot = 1 THEN matches ELSE slot1_ai_matches
             /\ pf_pc' = AfterAiBlock(pf_slot).pc
             /\ pf_slot' = AfterAiBlock(pf_slot).slot
       \/ \* the classifier call raises
          /\ pf_results' =
                [pf_results EXCEPT !.errors = @ \cup
                    {[slot |-> pf_slot, source |-> "classifier", kind |-> "error"]}]
          /\ slot1_ai_matches' = IF pf_slot = 1 THEN <<>> ELSE slot1_ai_matches
          /\ pf_pc' = AfterClassifierError(pf_slot).pc
          /\ pf_slot' = AfterClassifierError(pf_slot).slot
          /\ UNCHANGED <<prefilter_log, written_story_slot_pairs>>

\* The company filter block of slot 1.
CompanyFilterSlot1 ==
    /\ OnlyPrefilter
    /\ pf_pc = "company"
    /\ UNCHANGED <<pf_run, yesterday_issue, yesterday_data, slot_batch,
                   slot1_ai_matches, pf_attempted>>
    /\ \E write_raises \in BOOLEAN :
          WriteSlotRecords(1, Slot1CompanyFilterBatch(slot_batch), "CompanyFilter",
                           write_raises)
    /\ pf_pc' = AfterCompanyBlock.pc
    /\ pf_slot' = AfterCompanyBlock.slot

\* The end of the run: the count of eligible stories, return results.
PrefilterFinish ==
    /\ OnlyPrefilter
    /\ pf_pc = "finish"
    /\ pf_pc' = "done"
    /\ pf_results' =
          [pf_results EXCEPT
              !.eligible = Cardinality({pair[1] : pair \in written_story_slot_pairs})]
    /\ UNCHANGED <<pf_slot, pf_run, prefilter_log, yesterday_issue, yesterday_data,
                   slot_batch, written_story_slot_pairs, slot1_ai_matches, pf_attempted>>

\* The worker process dies in the middle of a run.
PrefilterCrash ==
    /\ OnlyPrefilter
    /\ pf_pc \in {"gather", "ai", "company", "finish"}
    /\ pf_pc' = "crashed"
    /\ UNCHANGED <<pf_slot, pf_run, prefilter_log, yesterday_issue, yesterday_data,
                   slot_batch, written_story_slot_pairs, slot1_ai_matches,
                   pf_attempted, pf_results>>

\* The job is run again over the same stories; the table is what the
\* earlier run left.
PrefilterRerun ==
    /\ OnlyPrefilter
    /\ pf_pc \in {"done", "failed", "crashed"}
    /\ pf_run < MaxRuns
    /\ pf_run' = pf_run + 1
    /\ pf_pc' = "gather"
    /\ pf_slot' = 0
    /\ yesterday_data' = NoYesterdayData
    /\ slot_batch' = <<>>
    /\ written_story_slot_pairs' = {}
    /\ slot1_ai_matches' = <<>>
    /\ pf_attempted' = {}
    /\ pf_results' = NoPrefilterResults
    /\ UNCHANGED <<prefilter_log, yesterday_issue>>

PrefilterNext ==
    \/ PrefilterGather
    \/ ClassifySlot
    \/ CompanyFilterSlot1
    \/ PrefilterFinish
    \/ PrefilterCrash

PrefilterRerunNext ==
    \/ PrefilterGather
    \/ ClassifySlot
    \/ CompanyFilterSlot1
    \/ PrefilterFinish
    \/ PrefilterCrash
    \/ PrefilterRerun

\* ========================================================================
\* workers/jobs/signal_slot_selection.py
\* ========================================================================

\* The sections in the order select_signal_slots handles them: the first
\* two main sections, and SIGNALS (slot 2) last.
SIGNAL_SELECTION_ORDER ==
    <<[slot |-> 1, section_key |-> "top_story"],
      [slot |-> 3, section_key |-> "ai_at_work"],
      [slot |-> 2, section_key |-> "signal"]>>

MainSectionKeys ==
    {SIGNAL_SELECTION_ORDER[k].section_key : k \in DOMAIN SIGNAL_SELECTION_ORDER}
        \ {"signal"}

SignalSlots == {SIGNAL_SELECTION_ORDER[k].slot : k \in DOMAIN SIGNAL_SELECTION_ORDER}

SignalNumbers == 1..MaxSignals

\* A Pre-Filter Log record as get_signal_candidates returns it.
SignalCandidate(story, pivot) == [storyID |-> story, pivotId |-> pivot]

\* What get_signal_candidates(slot, freshness_hours) may return: nothing,
\* two stories, or two records that carry the same pivotId.
SignalCandidateLists ==
    { <<>>,
      <<SignalCandidate("g1", "q1"), SignalCandidate("g2", "q2")>>,
      <<SignalCandidate("g2", "q2"), SignalCandidate("g3", "q3")>>,
      <<SignalCandidate("g1", "q1"), SignalCandidate("g4", "q1")>> }

\* What get_signal_used_pivot_ids(14) may return.
UsedPivotIdSets == { {}, {"q1"}, {"q3"} }

\* available_candidates: the candidates whose pivotId is not excluded.
SignalAvailableCandidates(candidates) ==
    SelectSeq(candidates, LAMBDA c : c.pivotId \notin excluded_pivot_ids)

SignalSelection(id, pivot) == [selected_id |-> id, selected_pivotId |-> pivot]

\* What the parsed answer of the model may hold for one story: a candidate
\* of the prompt with or without its pivotId, a story that is not on the
\* list, or the story g1 whether it was on the list or not.
SignalAnswers(available) ==
    {SignalSelection(available[k].storyID, available[k].pivotId) : k \in DOMAIN available}
        \cup {SignalSelection(available[k].storyID, "") : k \in DOMAIN available}
        \cup {SignalSelection("gx", ""), SignalSelection("g1", "q1")}

\* The "signals" list of the answer: up to MaxSignals stories.
SignalAnswerLists(available) ==
    UNION {[1..n -> SignalAnswers(available)] : n \in 0..MaxSignals}

\* The pivotId lookup of _select_single_slot and _select_signals: an answer
\* without selected_pivotId takes the pivotId of the first candidate with
\* its storyID.
WithPivotId(sel, candidates) ==
    LET hits == {k \in DOMAIN candidates : candidates[k].storyID = sel.selected_id}
        first == CHOOSE k \in hits : \A j \in hits : k <= j
    IN  IF sel.selected_pivotId # "" \/ hits = {}
        THEN sel
        ELSE SignalSelection(sel.selected_id, candidates[first].pivotId)

\* The fields of issue_data for one story; empty while not written.
NoSignalStory == [story_id |-> "", pivot_id |-> ""]

\* The pivotIds the loop over the returned signals adds to
\* excluded_pivot_ids.
SignalPivotIds(signals) ==
    {signals[i].selected_pivotId : i \in DOMAIN signals} \ {""}

\* The quick-hit fields after the loop over the returned signals: signal i
\* is written when it has a pivotId.
RecordedSignals(signals) ==
    [i \in SignalNumbers |->
        IF i \in DOMAIN signals /\ signals[i].selected_pivotId # ""
        THEN [story_id |-> signals[i].selected_id,
              pivot_id |-> signals[i].selected_pivotId]
        ELSE signal_issue_data.signals[i]]

\* The state after the loads of step 1 and the construction of issue_data.
SignalSelectorInit ==
    /\ sig_pc = "sections"
    /\ sig_pos = 1
    /\ used_pivot_ids \in UsedPivotIdSets
    /\ excluded_pivot_ids = used_pivot_ids
    /\ current_run_selections = [n \in SignalSlots |-> <<>>]
    /\ signal_issue_data =
          [issue_id |-> "Signal - next", status |-> "pending", subject_line |-> "",
           sections |-> [k \in MainSectionKeys |-> NoSignalStory],
           signals |-> [i \in SignalNumbers |-> NoSignalStory]]
    /\ signal_slots_table = <<>>
    /\ signal_results =
          [slots_filled |-> 0, signals_filled |-> 0, subject_line |-> "",
           record_id |-> "", errors |-> <<>>]

\* End of one iteration of the section loop.
SectionLoopAdvance ==
    /\ sig_pos' = sig_pos + 1
    /\ sig_pc' = IF sig_pos = Len(SIGNAL_SELECTION_ORDER) THEN "subject" ELSE "sections"

\* An iteration that ends in `continue` or in the except handler.
SectionSkipped(error) ==
    /\ signal_results' =
          [signal_results EXCEPT
              !.errors = Append(@, [slot |-> SIGNAL_SELECTION_ORDER[sig_pos].slot,
                                    error |-> error])]
    /\ SectionLoopAdvance
    /\ UNCHANGED <<used_pivot_ids, excluded_pivot_ids, current_run_selections,
                   signal_issue_data, signal_slots_table>>

\* The SIGNALS branch: every returned story with a pivotId is recorded.
SignalsRecorded(answer, available) ==
    LET signals == [i \in DOMAIN answer |-> WithPivotId(answer[i], available)]
    IN  /\ excluded_pivot_ids' = excluded_pivot_ids \cup SignalPivotIds(signals)
        /\ signal_issue_data' =
              [signal_issue_data EXCEPT !.signals = RecordedSignals(signals)]
        /\ signal_results' =
              [signal_results EXCEPT
                  !.signals_filled =
                      @ + Cardinality({i \in DOMAIN signals :
                                          signals[i].selected_pivotId # ""})]
        /\ current_run_selections' =
              [current_run_selections EXCEPT
                  ![SIGNAL_SELECTION_ORDER[sig_pos].slot] = signals]
        /\ SectionLoopAdvance
        /\ UNCHANGED <<used_pivot_ids, signal_slots_table>>

\* The branch of a main section: the story is recorded, with or without a
\* pivotId.
SectionRecorded(answer, available) ==
    LET selection == WithPivotId(answer, available)
        section_key == SIGNAL_SELECTION_ORDER[sig_pos].section_key
    IN  /\ excluded_pivot_ids' = excluded_pivot_ids \cup ({selection.selected_pivotId} \ {""})
        /\ signal_issue_data' =
              [signal_issue_data EXCEPT
                  !.sections[section_key] =
                      [story_id |-> selection.selected_id,
                       pivot_id |-> selection.selected_pivotId]]
        /\ signal_results' = [signal_results EXCEPT !.slots_filled = @ + 1]
        /\ current_run_selections' =
              [current_run_selections EXCEPT
                  ![SIGNAL_SELECTION_ORDER[sig_pos].slot] = <<selection>>]
        /\ SectionLoopAdvance
        /\ UNCHANGED <<used_pivot_ids, signal_slots_table>>

\* One iteration of `for slot, section_key, section_name in
\* SIGNAL_SELECTION_ORDER`.
ProcessSection ==
    /\ OnlySignalSelector
    /\ sig_pc = "sections"
    /\ \E candidates \in SignalCandidateLists :
          IF candidates = <<>>
          THEN SectionSkipped("No candidates available")
          ELSE LET available == SignalAvailableCandidates(candidates)
               IN  IF available = <<>>
                   THEN SectionSkipped("All candidates already selected")
                   ELSE \/ /\ SIGNAL_SELECTION_ORDER[sig_pos].section_key = "signal"
                           /\ \E answer \in SignalAnswerLists(available) :
                                 SignalsRecorded(answer, available)
                        \/ /\ SIGNAL_SELECTION_ORDER[sig_pos].section_key # "signal"
                           /\ \E answer \in SignalAnswers(available) :
                                 SectionRecorded(answer, available)
                        \/ SectionSkipped("selection error")

\* Step 3: the subject line, when a main section was recorded.
GenerateSignalSubjectLine ==
    /\ OnlySignalSelector
    /\ sig_pc = "subject"
    /\ sig_pc' = "write"
    /\ IF signal_results.slots_filled > 0
       THEN \/ /\ signal_issue_data' = [signal_issue_data EXCEPT !.subject_line = "subject"]
               /\ signal_results' = [signal_results EXCEPT !.subject_line = "subject"]
            \/ /\ signal_results' =
                     [signal_results EXCEPT
                         !.errors = Append(@, [slot |-> 0, error |-> "subject_line"])]
               /\ UNCHANGED signal_issue_data
       ELSE UNCHANGED <<signal_issue_data, signal_results>>
    /\ UNCHANGED <<sig_pos, used_pivot_ids, excluded_pivot_ids, current_run_selections,
                   signal_slots_table>>

\* Step 4: create_signal_issue(issue_data) when anything was selected.
CreateSignalIssue ==
    /\ OnlySignalSelector
    /\ sig_pc = "write"
    /\ sig_pc' = "done"
    /\ IF signal_results.slots_filled + signal_results.signals_filled > 0
       THEN \/ /\ signal_slots_table' = Append(signal_slots_table, signal_issue_data)
               /\ signal_results' = [signal_results EXCEPT !.record_id = "rec"]
            \/ /\ signal_results' =
                     [signal_results EXCEPT
                         !.errors = Append(@, [slot |-> 0, error |-> "write_slots"])]
               /\ UNCHANGED signal_slots_table
       ELSE UNCHANGED <<signal_slots_table, signal_results>>
    /\ UNCHANGED <<sig_pos, used_pivot_ids, excluded_pivot_ids, current_run_selections,
                   signal_issue_data>>

SignalSelectorNext ==
    \/ ProcessSection
    \/ GenerateSignalSubjectLine
    \/ CreateSignalIssue

\* ========================================================================
\* The issue date: get_next_issue_date (workers/jobs/slot_selection.py),
\* get_signal_issue_date (workers/jobs/signal_slot_selection.py)
\* ========================================================================

\* EST = timezone(timedelta(hours=-5)): the hours the clock of the job is
\* behind UTC, in every season.
EST_OFFSET == 5

\* The hours of one week, the second of the calendar that starts on a
\* Monday at 00:00 UTC.  Days are counted from that Monday.
UtcHours == (7 * 24)..(2 * 7 * 24 - 1)

\* The date of datetime.now(tz) for a zone `offset` hours behind UTC.
LocalDay(hour, offset) == (hour - offset) \div 24

\* datetime.weekday(): 0 = Monday ... 6 = Sunday.
Weekday(day) == day % 7

\* The weekend skipping both functions share, applied to datetime.now(EST).
NextIssueDay(hour) ==
    LET now == LocalDay(hour, EST_OFFSET)
    IN  IF Weekday(now) = 4 THEN now + 3
        ELSE IF Weekday(now) = 5 THEN now + 2
        ELSE now + 1

get_next_issue_date(hour) == NextIssueDay(hour)

get_signal_issue_date(hour) == NextIssueDay(hour)

IssueDateInit ==
    /\ date_pc = "start"
    /\ utc_now \in UtcHours
    /\ dst \in BOOLEAN
    /\ issue_date_iso = 0
    /\ signal_issue_date_iso = 0

\* select_slots computes the date of its Issue.
GetNextIssueDate ==
    /\ OnlyIssueDate
    /\ date_pc = "start"
    /\ issue_date_iso' = get_next_issue_date(utc_now)
    /\ date_pc' = "pivot"
    /\ UNCHANGED <<utc_now, dst, signal_issue_date_iso>>

\* select_signal_slots computes the date of its Issue.
GetSignalIssueDate ==
    /\ OnlyIssueDate
    /\ date_pc = "pivot"
    /\ signal_issue_date_iso' = get_signal_issue_date(utc_now)
    /\ date_pc' = "done"
    /\ UNCHANGED <<utc_now, dst, issue_date_iso>>

IssueDateNext ==
    \/ GetNextIssueDate
    \/ GetSignalIssueDate

\* ========================================================================
\* workers/jobs/decoration.py
\* ========================================================================

\* The slot_{n}_pivotId fields of the pending Issue: each slot carries a
\* pivotId or none, and some slot carries one.
IssuePivotIds ==
    {f \in [Slots -> {"", "p1", "p2", "p3"}] :
        /\ \A n \in Slots : f[n] \in {"", PrefilterLog[n].pivotId}
        /\ \E n \in Slots : f[n] # ""}

NoDecorationResults == [decorated |-> 0, issue_id |-> "", errors |-> <<>>]

DecoratorInit ==
    /\ dec_pc = "start"
    /\ dec_slot = 1
    /\ dec_run = 1
    /\ \E f \in IssuePivotIds :
          pivot_issue = [issue_id |-> "Pivot 5 - next", status |-> "pending", pivotId |-> f]
    /\ issue_stories = <<>>
    /\ dec_results = NoDecorationResults

\* Step 1: get_pending_issue(); without a pending Issue the job returns.
GetPendingIssue ==
    /\ OnlyDecorator
    /\ dec_pc = "start"
    /\ IF pivot_issue.status = "pending"
       THEN /\ dec_pc' = "slots"
            /\ dec_results' = [dec_results EXCEPT !.issue_id = "rec"]
       ELSE /\ dec_pc' = "done"
            /\ UNCHANGED dec_results
    /\ UNCHANGED <<dec_slot, dec_run, pivot_issue, issue_stories>>

\* End of one iteration of `for slot in range(1, 6)`.
DecorationLoopAdvance ==
    /\ dec_slot' = dec_slot + 1
    /\ dec_pc' = IF dec_slot = NumSlots THEN "status" ELSE "slots"

\* The row decorate_stories hands to write_decoration.
DecorationData(slot_order) ==
    [issue_id |-> pivot_issue.issue_id, slot_order |-> slot_order,
     pivotId |-> pivot_issue.pivotId[slot_order]]

\* write_decoration: table.create(decoration_data).
write_decoration(decoration_data) == Append(issue_stories, decoration_data)

\* One iteration of the slot loop: a slot without pivotId is passed over,
\* a failure (article not found, no markdown, decoration error, exception)
\* is recorded, and otherwise the row is created.
DecorateSlot ==
    /\ OnlyDecorator
    /\ dec_pc = "slots"
    /\ DecorationLoopAdvance
    /\ IF pivot_issue.pivotId[dec_slot] = ""
       THEN UNCHANGED <<issue_stories, dec_results>>
       ELSE \/ /\ dec_results' =
                     [dec_results EXCEPT
                         !.errors = Append(@, [slot |-> dec_slot, error |-> "failed"])]
               /\ UNCHANGED issue_stories
            \/ /\ issue_stories' = write_decoration(DecorationData(dec_slot))
               /\ dec_results' = [dec_results EXCEPT !.decorated = @ + 1]
    /\ UNCHANGED <<dec_run, pivot_issue>>

\* Step 3: the status update, made when a slot was decorated.
UpdateIssueStatus ==
    /\ OnlyDecorator
    /\ dec_pc = "status"
    /\ dec_pc' = "done"
    /\ IF dec_results.decorated > 0
       THEN \/ /\ pivot_issue' = [pivot_issue EXCEPT !.status = "decorated"]
               /\ UNCHANGED dec_results
            \/ /\ dec_results' =
                     [dec_results EXCEPT
                         !.errors = Append(@, [slot |-> 0, error |-> "update_status"])]
               /\ UNCHANGED pivot_issue
       ELSE UNCHANGED <<pivot_issue, dec_results>>
    /\ UNCHANGED <<dec_slot, dec_run, issue_stories>>

\* The job is killed between two of its steps (the worker stops, or the
\* 30 minute timeout of JOB_CONFIG ends it).
DecoratorCrash ==
    /\ OnlyDecorator
    /\ dec_pc \in {"slots", "status"}
    /\ dec_pc' = "crashed"
    /\ UNCHANGED <<dec_slot, dec_run, pivot_issue, issue_stories, dec_results>>

\* The job is started again.
DecoratorRerun ==
    /\ OnlyDecorator
    /\ dec_pc \in {"done", "crashed"}
    /\ dec_run < MaxRuns
    /\ dec_run' = dec_run + 1
    /\ dec_pc' = "start"
    /\ dec_slot' = 1
    /\ dec_results' = NoDecorationResults
    /\ UNCHANGED <<pivot_issue, issue_stories>>

DecoratorNext ==
    \/ GetPendingIssue
    \/ DecorateSlot
    \/ UpdateIssueStatus
    \/ DecoratorCrash
    \/ DecoratorRerun

\* ========================================================================
\* The compiled HTML: workers/jobs/signal_html_compile.py
\* ========================================================================

\* Instants of the wall clock, in order: what datetime.now(ET_TIMEZONE)
\* formats with '%B %d, %Y' and what datetime.now().year returns.
Instants ==
    <<[date |-> "December 30, 2026", year |-> "2026"],
      [date |-> "December 31, 2026", year |-> "2026"],
      [date |-> "January 01, 2027", year |-> "2027"]>>

\* Values of the issue_date field: absent, not an ISO date, an ISO date.
IssueDates == {"", "Jan 12", "2026-12-31"}

\* datetime.fromisoformat raises on a string that is no ISO date.
FromIsoformatRaises(issue_date_str) == issue_date_str = "Jan 12"

\* issue_date.strftime('%B %d, %Y')
Strftime(issue_date_str) ==
    CASE issue_date_str = "2026-12-31" -> "December 31, 2026"
      [] OTHER -> ""

\* issue_date_display: the formatted issue_date, and the date of the
\* compile when issue_date is absent or cannot be parsed.
IssueDateDisplay(issue_date_str, now) ==
    IF issue_date_str # "" /\ ~FromIsoformatRaises(issue_date_str)
    THEN Strftime(issue_date_str)
    ELSE Instants[now].date

DEFAULT_SUBJECT_LINE == "Your daily AI briefing is ready"

\* subject_line = issue_fields.get('subject_line', '') or DEFAULT_SUBJECT_LINE
SubjectLine(issue) ==
    IF issue.subject_line # "" THEN issue.subject_line ELSE DEFAULT_SUBJECT_LINE

\* _build_signal_html: the parts of the page that depend on its arguments
\* and on the clock (the header date, the sections, the year of the
\* copyright line).
BuildSignalHtml(stories_by_section, subject_line, issue_date_display, now) ==
    [preheader |-> subject_line,
     header_date |-> issue_date_display,
     sections |-> stories_by_section,
     copyright_year |-> Instants[now].year]

\* The HTML compile_signal_html stores for the Issue at the instant `now`.
CompiledHtml(issue, now) ==
    BuildSignalHtml(issue.stories, SubjectLine(issue),
                    IssueDateDisplay(issue.issue_date, now), now)

NoHtml ==
    [preheader |-> "", header_date |-> "", sections |-> {}, copyright_year |-> ""]

\* The decorated stories of the Issue, by section.
StorySets == { {"top_story"}, {"top_story", "signal_1"} }

HtmlInit ==
    /\ html_pc = "first"
    /\ html_now = 1
    /\ html_issue \in [issue_date : IssueDates, subject_line : {"", "subject"},
                       stories : StorySets]
    /\ first_html = NoHtml
    /\ second_html = NoHtml

\* Time passes.
ClockAdvances ==
    /\ OnlyHtml
    /\ html_now < Len(Instants)
    /\ html_now' = html_now + 1
    /\ UNCHANGED <<html_pc, html_issue, first_html, second_html>>

\* compile_signal_html builds and stores the HTML of the Issue.
FirstCompile ==
    /\ OnlyHtml
    /\ html_pc = "first"
    /\ first_html' = CompiledHtml(html_issue, html_now)
    /\ html_pc' = "second"
    /\ UNCHANGED <<html_now, html_issue, second_html>>

\* recompile_signal_html: the same Issue and stories are compiled again.
Recompile ==
    /\ OnlyHtml
    /\ html_pc = "second"
    /\ second_html' = CompiledHtml(html_issue, html_now)
    /\ html_pc' = "done"
    /\ UNCHANGED <<html_now, html_issue, first_html>>

HtmlNext ==
    \/ ClockAdvances
    \/ FirstCompile
    \/ Recompile

\* ========================================================================
\* workers/utils/execution_logger.py
\* ========================================================================

\* self._connection = None
NoConnection == [state |-> "none", sslmode |-> ""]

\* __init__: no connection yet, one entry logged ("Starting ... job").
LoggerInit ==
    /\ log_pc = "call"
    /\ log_status \in {"success", "error"}
    /\ log_summary \in {"empty", "json", "not_json"}
    /\ database_url \in BOOLEAN
    /\ node_env \in {"production", "development"}
    /\ connection = NoConnection
    /\ log_entries = 1
    /\ execution_logs = <<>>

\* json.dumps(metadata) in _log raises TypeError on a summary value that is
\* not JSON serializable; an empty summary is not dumped, and error() is
\* called without metadata.
LogRaises == log_status = "success" /\ log_summary = "not_json"

\* complete() logs the completion, before its try block; the entry is
\* appended before the line for stdout is formatted.
LogCompletion ==
    /\ OnlyLogger
    /\ log_pc = "call"
    /\ log_entries' = log_entries + 1
    /\ log_pc' = IF LogRaises THEN "raised" ELSE "connect"
    /\ UNCHANGED <<log_status, log_summary, database_url, node_env, connection,
                   execution_logs>>

\* sslmode of psycopg2.connect
SslMode == IF node_env = "production" THEN "require" ELSE "prefer"

\* _get_connection(): None without DATABASE_URL (complete returns, through
\* the finally block with no connection to close); otherwise
\* psycopg2.connect returns a connection or raises, and the exception is
\* caught by complete.
GetConnection ==
    /\ OnlyLogger
    /\ log_pc = "connect"
    /\ IF ~database_url
       THEN /\ log_pc' = "finally"
            /\ UNCHANGED connection
       ELSE \/ /\ connection' = [state |-> "open", sslmode |-> SslMode]
               /\ log_pc' = "insert"
            \/ /\ log_pc' = "finally"
               /\ UNCHANGED connection
    /\ UNCHANGED <<log_status, log_summary, database_url, node_env, log_entries,
                   execution_logs>>

\* The INSERT and the commit: the row is stored, or execute, commit or
\* json.dumps raise and the exception is caught.
InsertExecutionLog ==
    /\ OnlyLogger
    /\ log_pc = "insert"
    /\ log_pc' = "finally"
    /\ \/ /\ log_summary # "not_json"
          /\ execution_logs' =
                Append(execution_logs, [status |-> log_status, entries |-> log_entries])
       \/ UNCHANGED execution_logs
    /\ UNCHANGED <<log_status, log_summary, database_url, node_env, connection,
                   log_entries>>

\* What connection.close() does in the finally block: it closes the
\* connection or raises.
CloseOutcomes == {"closed", "raises"}

\* The finally block: an open connection is closed; an exception of
\* close() leaves complete().
CloseConnection ==
    /\ OnlyLogger
    /\ log_pc = "finally"
    /\ IF connection.state = "open"
       THEN \E outcome \in CloseOutcomes :
               IF outcome = "closed"
               THEN /\ connection' = [connection EXCEPT !.state = "closed"]
                    /\ log_pc' = "returned"
               ELSE /\ UNCHANGED connection
                    /\ log_pc' = "raised"
       ELSE /\ log_pc' = "returned"
            /\ UNCHANGED connection
    /\ UNCHANGED <<log_status, log_summary, database_url, node_env, log_entries,
                   execution_logs>>

LoggerNext ==
    \/ LogCompletion
    \/ GetConnection
    \/ InsertExecutionLog
    \/ CloseConnection

\* ========================================================================
\* workers/jobs/browserbase_retry.py
\* ========================================================================

\* Sites that need the Browserbase retry.
BROWSERBASE_SOURCES ==
    {"WSJ", "Wall Street Journal", "Bloomberg", "New York Times", "NYT", "MSN"}

\* Below this length the content counts as failed or truncated.
MIN_CONTENT_LENGTH == 500

\* The records of Newsletter Selects processed today, in table order.
SelectIds == <<"recW", "recT">>

\* Lengths of a raw field, or of scraped content.
ContentLengths == {0, MIN_CONTENT_LENGTH - 1, MIN_CONTENT_LENGTH}

SelectFields ==
    [source_name : {"WSJ", "TechCrunch"}, raw : ContentLengths,
     core_url : {"", "url"}, browserbase_extracted : {FALSE}]

\* The formula of the query: a paywalled source, raw empty or shorter than
\* MIN_CONTENT_LENGTH, processed today.
NeedsRetry(fields) ==
    /\ fields.source_name \in BROWSERBASE_SOURCES
    /\ (fields.raw = 0 \/ fields.raw < MIN_CONTENT_LENGTH)

\* get_newsletter_selects_by_formula(formula)
RecordsNeedingRetry ==
    SelectSeq(SelectIds, LAMBDA r : NeedsRetry(selects[r]))

NoRetryResults ==
    [status |-> "", retried |-> 0, success |-> 0, failed |-> 0]

RetryInit ==
    /\ bb_pc = "start"
    /\ bb_run = 1
    /\ api_key \in BOOLEAN
    /\ selects \in [Range(SelectIds) -> SelectFields]
    /\ bb_records = <<>>
    /\ bb_index = 1
    /\ scrape_calls = [r \in Range(SelectIds) |-> 0]
    /\ bb_results = NoRetryResults

\* The job up to the loop: without API key it is skipped, a failing query
\* or scraper construction ends it, and so does an empty result.
RetryQuery ==
    /\ OnlyRetry
    /\ bb_pc = "start"
    /\ bb_index' = 1
    /\ IF ~api_key
       THEN /\ bb_results' = [NoRetryResults EXCEPT !.status = "skipped"]
            /\ bb_pc' = "done"
            /\ UNCHANGED bb_records
       ELSE \/ /\ bb_results' = [NoRetryResults EXCEPT !.status = "failed"]
               /\ bb_pc' = "done"
               /\ UNCHANGED bb_records
            \/ /\ bb_records' = RecordsNeedingRetry
               /\ IF RecordsNeedingRetry = <<>>
                  THEN /\ bb_results' = [NoRetryResults EXCEPT !.status = "no_records"]
                       /\ bb_pc' = "done"
                  ELSE /\ bb_results' = [NoRetryResults EXCEPT !.status = "completed"]
                       /\ bb_pc' = "loop"
    /\ UNCHANGED <<bb_run, api_key, selects, scrape_calls>>

\* What scraper.scrape(url) does: it returns content of some length with
\* success set, returns a failure, or raises.
ScrapeResults ==
    {[success |-> TRUE, content_length |-> n, raises |-> FALSE] : n \in ContentLengths}
        \cup {[success |-> FALSE, content_length |-> 0, raises |-> FALSE],
              [success |-> FALSE, content_length |-> 0, raises |-> TRUE]}

\* One iteration of `for record in records`.
RetryRecord ==
    /\ OnlyRetry
    /\ bb_pc = "loop"
    /\ bb_index' = bb_index + 1
    /\ bb_pc' = IF bb_index = Len(bb_records) THEN "done" ELSE "loop"
    /\ LET record_id == bb_records[bb_index]
       IN  IF selects[record_id].core_url = ""
           THEN UNCHANGED <<selects, scrape_calls, bb_results>>
           ELSE /\ scrape_calls' = [scrape_calls EXCEPT ![record_id] = @ + 1]
                /\ \E scrape_result \in ScrapeResults :
                      IF /\ ~scrape_result.raises
                         /\ scrape_result.success
                         /\ scrape_result.content_length >= MIN_CONTENT_LENGTH
                      THEN \/ /\ selects' =
                                    [selects EXCEPT
                                        ![record_id].raw = scrape_result.content_length,
                                        ![record_id].browserbase_extracted = TRUE]
                              /\ bb_results' =
                                    [bb_results EXCEPT !.success = @ + 1,
                                                       !.retried = @ + 1]
                           \/ \* update_newsletter_select raises
                              /\ bb_results' =
                                    [bb_results EXCEPT !.failed = @ + 1,
                                                       !.retried = @ + 1]
                              /\ UNCHANGED selects
                      ELSE /\ bb_results' =
                                 [bb_results EXCEPT !.failed = @ + 1, !.retried = @ + 1]
                           /\ UNCHANGED selects
    /\ UNCHANGED <<bb_run, api_key, bb_records>>

\* The job runs again on the same day (the next cycle of the pipeline).
RetryRunsAgain ==
    /\ OnlyRetry
    /\ bb_pc = "done"
    /\ bb_run < MaxRuns
    /\ bb_run' = bb_run + 1
    /\ bb_pc' = "start"
    /\ bb_index' = 1
    /\ bb_records' = <<>>
    /\ bb_results' = NoRetryResults
    /\ UNCHANGED <<api_key, selects, scrape_calls>>

RetryNext ==
    \/ RetryQuery
    \/ RetryRecord
    \/ RetryRunsAgain

\* ========================================================================
\* app/workers/utils/mautic.py
\* ========================================================================

\* The most requests the gateway is asked in one behaviour.
MaxRequests == 3

StatusCodes == {200, 404, 500}

NoCall == [op |-> "", first_request |-> 0, segment_id |-> ""]

MauticInit ==
    /\ gateway_answers \in [1..MaxRequests -> StatusCodes]
    /\ requests_made = 0
    /\ transport_id \in {"", "tid"}
    /\ mautic_call = NoCall
    /\ mautic_outcome = ""

\* _make_request: one call of requests.request; a status of 400 or more is
\* raised as an exception, anything else returns the decoded body.
MakeRequestOutcome(status_code) ==
    IF status_code >= 400 THEN "raised" ELSE "returned"

\* The effect of one _make_request on the client's state, called from op.
MakeRequest(op, segment_id) ==
    /\ requests_made < MaxRequests
    /\ requests_made' = requests_made + 1
    /\ mautic_call' = [op |-> op, first_request |-> requests_made + 1,
                       segment_id |-> segment_id]
    /\ UNCHANGED <<gateway_answers, transport_id>>

\* create_email(email_data)
CreateEmail ==
    /\ OnlyMautic
    /\ MakeRequest("create_email", "")
    /\ mautic_outcome' = MakeRequestOutcome(gateway_answers[requests_made + 1])

\* update_email(email_id, update_data)
UpdateEmail ==
    /\ OnlyMautic
    /\ MakeRequest("update_email", "")
    /\ mautic_outcome' = MakeRequestOutcome(gateway_answers[requests_made + 1])

\* attach_transport(email_id): without a transport id it returns False and
\* asks nothing; an exception of the request is caught and gives False.
AttachTransport ==
    /\ OnlyMautic
    /\ IF transport_id = ""
       THEN /\ requests_made < MaxRequests
            /\ mautic_call' = [op |-> "attach_transport", first_request |-> 0,
                               segment_id |-> ""]
            /\ mautic_outcome' = "false"
            /\ UNCHANGED <<gateway_answers, requests_made, transport_id>>
       ELSE /\ MakeRequest("attach_transport", "")
            /\ mautic_outcome' =
                  IF MakeRequestOutcome(gateway_answers[requests_made + 1]) = "raised"
                  THEN "false" ELSE "returned"

\* send_email(email_id, segment_id)
SendEmail ==
    /\ OnlyMautic
    /\ \E segment_id \in {"", "seg"} :
          /\ MakeRequest("send_email", segment_id)
          /\ mautic_outcome' = MakeRequestOutcome(gateway_answers[requests_made + 1])

MauticNext ==
    \/ CreateEmail
    \/ UpdateEmail
    \/ AttachTransport
    \/ SendEmail

\* ========================================================================
\* workers/backfill_72h.py
\* ========================================================================

\* The most articles one fetch of the feeds gives.
MaxBatch == 2

\* Rows of one page of the Articles table (the code asks for pages of 100).
PageRows == 1

\* The URLs of fetched articles, after resolution.
ArticleUrls == {"", "a", "a?utm_source=rss", "b"}

\* utils/pivot_id.generate_pivot_id(url): the hash of the normalized URL;
\* the empty URL has no pivot_id.
generate_pivot_id(url) ==
    CASE url = "" -> ""
      [] url \in {"a", "a?utm_source=rss"} -> "pA"
      [] OTHER -> "pB"

\* The feeds' articles of one run, as URLs.
RawArticles ==
    UNION {[1..n -> ArticleUrls] : n \in 1..MaxBatch}

\* Step 4 of main: the pivot_id of each article, those without one removed.
ArticlesWithId(raw_articles) ==
    SelectSeq([i \in DOMAIN raw_articles |-> generate_pivot_id(raw_articles[i])],
              LAMBDA pivot_id : pivot_id # "")

\* fetch_existing_pivot_ids: the pivot_ids of the pages read; a page whose
\* request is not answered with 200 ends the loop, and the ids collected
\* up to then are returned.
PagesOf(table) == (Len(table) + PageRows - 1) \div PageRows

FetchExistingPivotIds(table, pages_read) ==
    {table[i] : i \in {j \in DOMAIN table : j <= pages_read * PageRows}}

BackfillInit ==
    /\ bf_pc = "start"
    /\ bf_run = 1
    /\ articles_table \in {<<>>, <<"pA">>, <<"pB", "pA">>}
    /\ articles_with_id = <<>>
    /\ existing_pivot_ids = {}
    /\ bf_created = 0

\* main up to step 5: fetch, filter, pivot_ids, the existing ids.
BackfillFetch ==
    /\ OnlyBackfill
    /\ bf_pc = "start"
    /\ \E raw_articles \in RawArticles :
          articles_with_id' = ArticlesWithId(raw_articles)
    /\ \E pages_read \in 0..PagesOf(articles_table) :
          existing_pivot_ids' = FetchExistingPivotIds(articles_table, pages_read)
    /\ bf_pc' = "fetched"
    /\ UNCHANGED <<bf_run, articles_table, bf_created>>

\* Step 6 of main: the articles whose pivot_id is not among the existing.
NewArticles ==
    SelectSeq(articles_with_id, LAMBDA pivot_id : pivot_id \notin existing_pivot_ids)

\* Steps 6 to 8 of main: append_to_airtable posts the new articles; the
\* request creates every record of the batch or fails as a whole.
BackfillAppend ==
    /\ OnlyBackfill
    /\ bf_pc = "fetched"
    /\ bf_pc' = "done"
    /\ \/ /\ articles_table' = articles_table \o NewArticles
          /\ bf_created' = Len(NewArticles)
       \/ /\ NewArticles # <<>>
          /\ bf_created' = 0
          /\ UNCHANGED articles_table
    /\ UNCHANGED <<bf_run, articles_with_id, existing_pivot_ids>>

\* The backfill is started again.
BackfillAgain ==
    /\ OnlyBackfill
    /\ bf_pc = "done"
    /\ bf_run < MaxRuns
    /\ bf_run' = bf_run + 1
    /\ bf_pc' = "start"
    /\ articles_with_id' = <<>>
    /\ existing_pivot_ids' = {}
    /\ bf_created' = 0
    /\ UNCHANGED articles_table

BackfillNext ==
    \/ BackfillFetch
    \/ BackfillAppend
    \/ BackfillAgain

\* ========================================================================
\* workers/utils/airtable.py: archive_newsletter_issue_ai_editor
\* ========================================================================

\* The most calls of the archive function in one behaviour.
MaxArchiveCalls == 3

\* The workers that may call the archive function at the same time.
ArchiveCallers == {"w1", "w2"}

ArchiveData == [issue_id : {"", "i1", "i2"}, status : {"sent", "failed"}]

NoArchiveData == [issue_id |-> "", status |-> ""]

\* table.all(formula="{issue_id} = '...'", max_records=1): the first row
\* with the issue_id, 0 when there is none.
ExistingArchiveRow(issue_id) ==
    IF \E i \in DOMAIN archive_table : archive_table[i].issue_id = issue_id
    THEN CHOOSE i \in DOMAIN archive_table :
            /\ archive_table[i].issue_id = issue_id
            /\ \A j \in DOMAIN archive_table :
                  archive_table[j].issue_id = issue_id => i <= j
    ELSE 0

ArchiveInit ==
    /\ archive_table = <<>>
    /\ arch_pc = [c \in ArchiveCallers |-> "idle"]
    /\ arch_data = [c \in ArchiveCallers |-> NoArchiveData]
    /\ arch_existing = [c \in ArchiveCallers |-> 0]
    /\ arch_calls = 0

\* The call up to the answer of table.all: a missing issue_id raises
\* ValueError, otherwise the caller holds what the table held at that time.
ArchiveCheck(c, data) ==
    /\ OnlyArchive
    /\ arch_pc[c] # "checked"
    /\ arch_calls < MaxArchiveCalls
    /\ arch_calls' = arch_calls + 1
    /\ arch_data' = [arch_data EXCEPT ![c] = data]
    /\ IF data.issue_id = ""
       THEN /\ arch_pc' = [arch_pc EXCEPT ![c] = "raised"]
            /\ arch_existing' = [arch_existing EXCEPT ![c] = 0]
       ELSE /\ arch_pc' = [arch_pc EXCEPT ![c] = "checked"]
            /\ arch_existing' =
                  [arch_existing EXCEPT ![c] = ExistingArchiveRow(data.issue_id)]
    /\ UNCHANGED archive_table

\* The rest of the call: table.update of the row found, or table.create.
ArchiveWrite(c) ==
    /\ OnlyArchive
    /\ arch_pc[c] = "checked"
    /\ arch_pc' = [arch_pc EXCEPT ![c] = "returned"]
    /\ archive_table' =
          IF arch_existing[c] # 0
          THEN [archive_table EXCEPT ![arch_existing[c]] = arch_data[c]]
          ELSE Append(archive_table, arch_data[c])
    /\ UNCHANGED <<arch_data, arch_existing, arch_calls>>

ArchiveCalled == \E c \in ArchiveCallers, data \in ArchiveData : ArchiveCheck(c, data)

ArchiveWritten == \E c \in ArchiveCallers : ArchiveWrite(c)

ArchiveNext ==
    \/ ArchiveCalled
    \/ ArchiveWritten

\* ========================================================================
\* workers/utils/images.py and workers/jobs/image_generation.py
\* ========================================================================

\* The most image jobs in one behaviour.
MaxImageJobs == 2

\* What a generator's API does with one request: it gives an image, refuses
\* the key (401/403), fails in another way (other status, timeout), or
\* answers 200 without image data.
GeneratorOutcomes == {"image", "auth_error", "upstream_error", "empty"}

NoImageCall == [primary |-> "not_called", fallback |-> "not_called", source |-> ""]

\* generate_image(prompt): Gemini when its key is set; every outcome of it
\* without image bytes goes on to GPT Image when that key is set.
GenerateImage(primary_outcome, fallback_outcome) ==
    LET primary == IF gemini_api_key THEN primary_outcome ELSE "not_called"
        fallback == IF primary # "image" /\ openai_api_key
                    THEN fallback_outcome ELSE "not_called"
    IN  [primary |-> primary,
         fallback |-> fallback,
         source |-> CASE primary = "image" -> "gemini"
                      [] fallback = "image" -> "gpt"
                      [] OTHER -> "none"]

\* process_image(prompt, story_id): generate, optimize, upload; the URL of
\* the upload, "" when no image was generated or the upload gave none.
ProcessImage(call, uploaded) ==
    IF call.source = "none" THEN "" ELSE IF uploaded THEN "url" ELSE ""

DecorationRecords == {"rec1", "rec2"}

PendingDecoration(image_status) ==
    [image_status |-> image_status, image_url |-> "", image_error |-> ""]

ImagesInit ==
    /\ gemini_api_key \in BOOLEAN
    /\ openai_api_key \in BOOLEAN
    /\ decorations \in [DecorationRecords ->
                          {PendingDecoration(st) : st \in {"pending", "needs_image"}}]
    /\ img_job = ""
    /\ img_pc = ""
    /\ img_call = NoImageCall
    /\ img_runs = 0

\* generate_images(): after the clients are built, the log line about
\* Cloudinary reads image_client.cloudinary_url, an attribute ImageClient
\* does not have; the AttributeError leaves the job before its try block
\* and before the decoration table is queried.
GenerateImages ==
    /\ OnlyImages
    /\ img_runs < MaxImageJobs
    /\ img_runs' = img_runs + 1
    /\ img_job' = "generate_images"
    /\ img_pc' = "raised"
    /\ img_call' = NoImageCall
    /\ UNCHANGED <<gemini_api_key, openai_api_key, decorations>>

\* regenerate_image(record_id): with a URL the record is updated to
\* 'generated' (an exception of the update is caught), without one nothing
\* is written.
RegenerateImage(record_id) ==
    /\ OnlyImages
    /\ img_runs < MaxImageJobs
    /\ img_runs' = img_runs + 1
    /\ img_job' = "regenerate_image"
    /\ img_pc' = "returned"
    /\ \E primary_outcome, fallback_outcome \in GeneratorOutcomes,
          uploaded, update_raises \in BOOLEAN :
          LET call == GenerateImage(primary_outcome, fallback_outcome)
              image_url == ProcessImage(call, uploaded)
          IN  /\ img_call' = call
              /\ decorations' =
                    IF image_url # "" /\ ~update_raises
                    THEN [decorations EXCEPT ![record_id] =
                            [image_status |-> "generated", image_url |-> image_url,
                             image_error |-> @.image_error]]
                    ELSE decorations
    /\ UNCHANGED <<gemini_api_key, openai_api_key>>

ImageRegenerated == \E record_id \in DecorationRecords : RegenerateImage(record_id)

ImagesNext ==
    \/ GenerateImages
    \/ ImageRegenerated

\* ========================================================================
\* workers/utils/claude_prefilter.py: _run_slot_prefilter
\* ========================================================================

\* The most chunks of one classifier operation.
MaxChunks == 2

\* `if retry_count < 2` in each handler of _execute_claude_prefilter.
RETRY_LIMIT == 2

\* What one call of the API ends in: a JSON answer with matches or with
\* none, a malformed answer from which _parse_batch_response recovers
\* matches, a malformed answer without any, a rate limit, another error.
AnswerOutcomes == {"matches", "no_matches", "recovered"}

FailureOutcomes == {"malformed", "rate_limit", "error"}

\* The matches a chunk's answer holds.
ChunkMatches(chunk, outcome) ==
    IF outcome \in {"matches", "recovered"} THEN <<chunk>> ELSE <<>>

\* Whether a handler calls _execute_claude_prefilter again.
ShouldRetryOnceMore(count) == count <= RETRY_LIMIT

ShouldRetry(count) == count < RETRY_LIMIT

\* The sleep before the retry: longer after a rate limit.
WaitTime(outcome, count) ==
    IF outcome = "rate_limit" THEN (count + 1) * 5 ELSE (count + 1) * 2

ClassifierInit ==
    /\ cl_pc = "start"
    /\ cl_chunks \in 0..MaxChunks
    /\ cl_chunk = 0
    /\ retry_count = 0
    /\ chunk_attempts = [c \in 1..MaxChunks |-> <<>>]
    /\ wait_time = 0
    /\ all_matches = <<>>

\* _run_slot_prefilter up to the loop: without articles it returns [].
RunSlotPrefilter ==
    /\ OnlyClassifier
    /\ cl_pc = "start"
    /\ IF cl_chunks = 0
       THEN cl_pc' = "returned" /\ cl_chunk' = 0
       ELSE cl_pc' = "chunk" /\ cl_chunk' = 1
    /\ UNCHANGED <<cl_chunks, retry_count, chunk_attempts, wait_time, all_matches>>

\* The chunk's call has returned `matches`: they are added and the loop
\* goes on, or the operation returns all_matches.
ChunkReturns(matches) ==
    /\ all_matches' = all_matches \o matches
    /\ retry_count' = 0
    /\ IF cl_chunk = cl_chunks
       THEN cl_pc' = "returned" /\ cl_chunk' = cl_chunk
       ELSE cl_pc' = "chunk" /\ cl_chunk' = cl_chunk + 1

\* One call of _execute_claude_prefilter for the current chunk.
ExecuteClaudePrefilter(outcome) ==
    /\ OnlyClassifier
    /\ cl_pc = "chunk"
    /\ chunk_attempts' = [chunk_attempts EXCEPT ![cl_chunk] = Append(@, outcome)]
    /\ IF outcome \in AnswerOutcomes
       THEN /\ ChunkReturns(ChunkMatches(cl_chunk, outcome))
            /\ UNCHANGED wait_time
       ELSE IF ShouldRetry(retry_count)
            THEN /\ wait_time' = WaitTime(outcome, retry_count)
                 /\ retry_count' = retry_count + 1
                 /\ UNCHANGED <<cl_pc, cl_chunk, all_matches>>
            ELSE /\ ChunkReturns(<<>>)
                 /\ UNCHANGED wait_time
    /\ UNCHANGED cl_chunks

ClaudeAnswers == \E outcome \in AnswerOutcomes : ExecuteClaudePrefilter(outcome)

ClaudeFails == \E outcome \in FailureOutcomes : ExecuteClaudePrefilter(outcome)

ClassifierNext ==
    \/ RunSlotPrefilter
    \/ ClaudeAnswers
    \/ ClaudeFails

\* ========================================================================
\* The Issue fields between select_signal_slots and decorate_signal_stories
\* ========================================================================

\* The name under which select_signal_slots writes a pivot id: the prefix
\* is the section_key of a main section, or signal_{i}.
SelectorPivotIdField(prefix) == prefix \o "_pivot_id"

SignalPrefix(i) == "signal_" \o ToString(i)

\* The record create_signal_issue stores for issue_data, as pairs of field
\* name and value: a main section's field is set once the section was
\* recorded, a quick-hit's field when it has a pivot id.
SignalIssueFields(issue) ==
    {<<SelectorPivotIdField(k), issue.sections[k].pivot_id>> :
        k \in {key \in MainSectionKeys : issue.sections[key] # NoSignalStory}}
    \cup
    {<<SelectorPivotIdField(SignalPrefix(i)), issue.signals[i].pivot_id>> :
        i \in {n \in SignalNumbers : issue.signals[n] # NoSignalStory}}

\* fields.get(name, '')
FieldGet(fields, name) ==
    IF \E f \in fields : f[1] = name
    THEN (CHOOSE f \in fields : f[1] = name)[2]
    ELSE ""

\* SIGNAL_SECTIONS of the decorator, for the sections of the model:
\* signal_num is 0 for a main section.
SectionConfigs ==
    {[section |-> "top_story", source_slot |-> 1, signal_num |-> 0],
     [section |-> "ai_at_work", source_slot |-> 3, signal_num |-> 0]}
    \cup
    {[section |-> SignalPrefix(i), source_slot |-> 2, signal_num |-> i] :
        i \in SignalNumbers}

\* The field decorate_signal_stories reads the pivot id of a section from.
DecoratorPivotIdField(section_config) ==
    IF section_config.signal_num # 0
    THEN SignalPrefix(section_config.signal_num) \o "_pivotId"
    ELSE section_config.section \o "_pivotId"

\* The sections the decorator does not skip with "No pivot_id".
SectionsPickedUp(fields) ==
    {cfg \in SectionConfigs : FieldGet(fields, DecoratorPivotIdField(cfg)) # ""}

\* ========================================================================
\* workers/jobs/scheduled_send_checker.py: sweeps of several workers
\* ========================================================================

\* The most sweeps started in one behaviour.
MaxSweeps == 3

\* The workers of the queue that may run the sweep job.
SweepWorkers == {"w1", "w2"}

SweepersInit ==
    /\ final_status = [r \in FinalIds |-> "scheduled"]
    /\ final_due \in [FinalIds -> BOOLEAN]
    /\ sw_pc = [w \in SweepWorkers |-> "idle"]
    /\ sw_scheduled = [w \in SweepWorkers |-> <<>>]
    /\ send_jobs = [r \in FinalIds |-> 0]
    /\ sw_started = 0

\* check_scheduled_newsletters up to its loop: the query for the records
\* with status 'scheduled'; a failing query or an empty answer ends the job.
SweepQuery(w) ==
    /\ OnlySweepers
    /\ sw_pc[w] # "loop"
    /\ sw_started < MaxSweeps
    /\ sw_started' = sw_started + 1
    /\ \/ LET scheduled ==
                 SelectSeq(FinalRecords, LAMBDA r : final_status[r] = "scheduled")
          IN  /\ sw_scheduled' = [sw_scheduled EXCEPT ![w] = scheduled]
              /\ sw_pc' = [sw_pc EXCEPT ![w] =
                              IF scheduled = <<>> THEN "returned" ELSE "loop"]
       \/ /\ sw_scheduled' = [sw_scheduled EXCEPT ![w] = <<>>]
          /\ sw_pc' = [sw_pc EXCEPT ![w] = "returned"]
    /\ UNCHANGED <<final_status, final_due, send_jobs>>

\* One iteration of `for record in scheduled`: a record that is due is
\* updated to 'next-send' and a send job is enqueued for it.
SweepRecord(w, outcome) ==
    /\ OnlySweepers
    /\ sw_pc[w] = "loop"
    /\ LET r == Head(sw_scheduled[w])
       IN  IF final_due[r] /\ outcome # "update_raises"
           THEN /\ final_status' = [final_status EXCEPT ![r] = "next-send"]
                /\ send_jobs' =
                      IF outcome = "queued"
                      THEN [send_jobs EXCEPT ![r] = @ + 1]
                      ELSE send_jobs
           ELSE UNCHANGED <<final_status, send_jobs>>
    /\ sw_scheduled' = [sw_scheduled EXCEPT ![w] = Tail(@)]
    /\ sw_pc' = [sw_pc EXCEPT ![w] =
                    IF Len(sw_scheduled[w]) = 1 THEN "returned" ELSE "loop"]
    /\ UNCHANGED <<final_due, sw_started>>

SweepStarted == \E w \in SweepWorkers : SweepQuery(w)

SweepHandlesRecord ==
    \E w \in SweepWorkers, outcome \in SendOutcomes : SweepRecord(w, outcome)

SweepersNext ==
    \/ SweepStarted
    \/ SweepHandlesRecord

\* ========================================================================
\* Specifications
\* ========================================================================

\* The state of a job that is not running.
PipelineIdle == PipelineInit

SelectorIdle ==
    /\ SelectorInit
    /\ selected_slots_table = <<>>

IssueIdle ==
    /\ IssueInit
    /\ signal_issues = [id \in SignalIssueIds |-> AbsentIssue]
    /\ issues_final = [r \in FinalIds |-> AbsentFinal]

PrefilterIdle ==
    /\ PrefilterInit
    /\ yesterday_issue = EmptySlot

SignalSelectorIdle ==
    /\ SignalSelectorInit
    /\ used_pivot_ids = {}

IssueDateIdle ==
    /\ IssueDateInit
    /\ utc_now = 7 * 24
    /\ dst = FALSE

DecoratorIdle ==
    /\ DecoratorInit
    /\ pivot_issue.pivotId = [n \in Slots |-> PrefilterLog[n].pivotId]

RetryIdle ==
    /\ RetryInit
    /\ ~api_key
    /\ selects = [r \in Range(SelectIds) |->
                    [source_name |-> "WSJ", raw |-> 0, core_url |-> "url",
                     browserbase_extracted |-> FALSE]]

MauticIdle ==
    /\ MauticInit
    /\ gateway_answers = [n \in 1..MaxRequests |-> 200]
    /\ transport_id = ""

BackfillIdle ==
    /\ BackfillInit
    /\ articles_table = <<>>

ArchiveIdle ==
    ArchiveInit

ImagesIdle ==
    /\ ImagesInit
    /\ ~gemini_api_key
    /\ ~openai_api_key
    /\ decorations = [r \in DecorationRecords |-> PendingDecoration("pending")]

ClassifierIdle ==
    /\ ClassifierInit
    /\ cl_chunks = 0

SweepersIdle ==
    /\ SweepersInit
    /\ final_due = [r \in FinalIds |-> FALSE]

LoggerIdle ==
    /\ LoggerInit
    /\ log_status = "success"
    /\ log_summary = "empty"
    /\ ~database_url
    /\ node_env = "development"

HtmlIdle ==
    /\ HtmlInit
    /\ html_issue = [issue_date |-> "", subject_line |-> "", stories |-> {"top_story"}]

InitPipeline ==
    PipelineInit /\ SelectorIdle /\ IssueIdle /\ PrefilterIdle /\ SignalSelectorIdle
        /\ IssueDateIdle
        /\ DecoratorIdle
        /\ HtmlIdle
        /\ LoggerIdle
        /\ RetryIdle
        /\ MauticIdle
        /\ BackfillIdle
        /\ ArchiveIdle
        /\ ImagesIdle
        /\ ClassifierIdle
        /\ SweepersIdle

SpecPipeline == InitPipeline /\ [][PipelineNext]_vars

\* The interpreter keeps running run_full_pipeline: whatever step is enabled
\* is eventually taken.
FairPipeline == SpecPipeline /\ WF_vars(PipelineNext)

InitSelect ==
    SelectorInit /\ PipelineIdle /\ IssueIdle /\ PrefilterIdle /\ SignalSelectorIdle
        /\ IssueDateIdle
        /\ DecoratorIdle
        /\ HtmlIdle
        /\ LoggerIdle
        /\ RetryIdle
        /\ MauticIdle
        /\ BackfillIdle
        /\ ArchiveIdle
        /\ ImagesIdle
        /\ ClassifierIdle
        /\ SweepersIdle

SpecSelect == InitSelect /\ [][SelectorNext]_vars

InitIssues ==
    IssueInit /\ PipelineIdle /\ SelectorIdle /\ PrefilterIdle /\ SignalSelectorIdle
        /\ IssueDateIdle
        /\ DecoratorIdle
        /\ HtmlIdle
        /\ LoggerIdle
        /\ RetryIdle
        /\ MauticIdle
        /\ BackfillIdle
        /\ ArchiveIdle
        /\ ImagesIdle
        /\ ClassifierIdle
        /\ SweepersIdle

SpecIssues == InitIssues /\ [][IssueNext]_vars

InitPrefilter ==
    PrefilterInit /\ PipelineIdle /\ SelectorIdle /\ IssueIdle /\ SignalSelectorIdle
        /\ IssueDateIdle
        /\ DecoratorIdle
        /\ HtmlIdle
        /\ LoggerIdle
        /\ RetryIdle
        /\ MauticIdle
        /\ BackfillIdle
        /\ ArchiveIdle
        /\ ImagesIdle
        /\ ClassifierIdle
        /\ SweepersIdle

SpecPrefilter == InitPrefilter /\ [][PrefilterNext]_vars

\* The prefilter job run up to MaxRuns times over the same input.
SpecPrefilterRerun == InitPrefilter /\ [][PrefilterRerunNext]_vars

InitSignalSelect ==
    SignalSelectorInit /\ PipelineIdle /\ SelectorIdle /\ IssueIdle /\ PrefilterIdle
        /\ IssueDateIdle
        /\ DecoratorIdle
        /\ HtmlIdle
        /\ LoggerIdle
        /\ RetryIdle
        /\ MauticIdle
        /\ BackfillIdle
        /\ ArchiveIdle
        /\ ImagesIdle
        /\ ClassifierIdle
        /\ SweepersIdle

SpecSignalSelect == InitSignalSelect /\ [][SignalSelectorNext]_vars

InitIssueDate ==
    IssueDateInit /\ PipelineIdle /\ SelectorIdle /\ IssueIdle /\ PrefilterIdle
        /\ SignalSelectorIdle
        /\ DecoratorIdle
        /\ HtmlIdle
        /\ LoggerIdle
        /\ RetryIdle
        /\ MauticIdle
        /\ BackfillIdle
        /\ ArchiveIdle
        /\ ImagesIdle
        /\ ClassifierIdle
        /\ SweepersIdle

SpecIssueDate == InitIssueDate /\ [][IssueDateNext]_vars

InitDecorator ==
    DecoratorInit /\ PipelineIdle /\ SelectorIdle /\ IssueIdle /\ PrefilterIdle
        /\ SignalSelectorIdle /\ IssueDateIdle
        /\ HtmlIdle
        /\ LoggerIdle
        /\ RetryIdle
        /\ MauticIdle
        /\ BackfillIdle
        /\ ArchiveIdle
        /\ ImagesIdle
        /\ ClassifierIdle
        /\ SweepersIdle

SpecDecorator == InitDecorator /\ [][DecoratorNext]_vars

\* The Signal Issue jobs alone: no record is scheduled.
InitSignalIssues ==
    InitIssues /\ issues_final = [r \in FinalIds |-> AbsentFinal]

SpecSignalIssues == InitSignalIssues /\ [][SignalIssueNext]_vars

\* The scheduled-send sweep alone: the Signal table is empty.
InitSweep ==
    InitIssues /\ signal_issues = [id \in SignalIssueIds |-> AbsentIssue]

SpecSweep == InitSweep /\ [][SweepNext]_vars

InitHtml ==
    HtmlInit /\ PipelineIdle /\ SelectorIdle /\ IssueIdle /\ PrefilterIdle
        /\ SignalSelectorIdle /\ IssueDateIdle /\ DecoratorIdle
        /\ LoggerIdle
        /\ RetryIdle
        /\ MauticIdle
        /\ BackfillIdle
        /\ ArchiveIdle
        /\ ImagesIdle
        /\ ClassifierIdle
        /\ SweepersIdle

SpecHtml == InitHtml /\ [][HtmlNext]_vars

InitLogger ==
    LoggerInit /\ PipelineIdle /\ SelectorIdle /\ IssueIdle /\ PrefilterIdle
        /\ SignalSelectorIdle /\ IssueDateIdle /\ DecoratorIdle /\ HtmlIdle
        /\ RetryIdle
        /\ MauticIdle
        /\ BackfillIdle
        /\ ArchiveIdle
        /\ ImagesIdle
        /\ ClassifierIdle
        /\ SweepersIdle

SpecLogger == InitLogger /\ [][LoggerNext]_vars

InitRetry ==
    RetryInit /\ PipelineIdle /\ SelectorIdle /\ IssueIdle /\ PrefilterIdle
        /\ SignalSelectorIdle /\ IssueDateIdle /\ DecoratorIdle /\ HtmlIdle
        /\ LoggerIdle
        /\ MauticIdle
        /\ BackfillIdle
        /\ ArchiveIdle
        /\ ImagesIdle
        /\ ClassifierIdle
        /\ SweepersIdle

SpecRetry == InitRetry /\ [][RetryNext]_vars

InitMautic ==
    MauticInit /\ PipelineIdle /\ SelectorIdle /\ IssueIdle /\ PrefilterIdle
        /\ SignalSelectorIdle /\ IssueDateIdle /\ DecoratorIdle /\ HtmlIdle
        /\ LoggerIdle /\ RetryIdle
        /\ BackfillIdle
        /\ ArchiveIdle
        /\ ImagesIdle
        /\ ClassifierIdle
        /\ SweepersIdle

SpecMautic == InitMautic /\ [][MauticNext]_vars

InitBackfill ==
    BackfillInit /\ PipelineIdle /\ SelectorIdle /\ IssueIdle
        /\ PrefilterIdle /\ SignalSelectorIdle /\ IssueDateIdle
        /\ DecoratorIdle /\ RetryIdle /\ MauticIdle /\ LoggerIdle
        /\ HtmlIdle
        /\ ArchiveIdle
        /\ ImagesIdle
        /\ ClassifierIdle
        /\ SweepersIdle

SpecBackfill == InitBackfill /\ [][BackfillNext]_vars

InitArchive ==
    ArchiveInit /\ PipelineIdle /\ SelectorIdle /\ IssueIdle
        /\ PrefilterIdle /\ SignalSelectorIdle /\ IssueDateIdle
        /\ DecoratorIdle /\ RetryIdle /\ MauticIdle /\ BackfillIdle
        /\ LoggerIdle /\ HtmlIdle
        /\ ImagesIdle
        /\ ClassifierIdle
        /\ SweepersIdle

SpecArchive == InitArchive /\ [][ArchiveNext]_vars

InitImages ==
    ImagesInit /\ PipelineIdle /\ SelectorIdle /\ IssueIdle /\ PrefilterIdle
        /\ SignalSelectorIdle /\ IssueDateIdle /\ DecoratorIdle /\ RetryIdle
        /\ MauticIdle /\ BackfillIdle /\ ArchiveIdle /\ LoggerIdle
        /\ HtmlIdle
        /\ ClassifierIdle
        /\ SweepersIdle

SpecImages == InitImages /\ [][ImagesNext]_vars

InitClassifier ==
    ClassifierInit /\ PipelineIdle /\ SelectorIdle /\ IssueIdle
        /\ PrefilterIdle /\ SignalSelectorIdle /\ IssueDateIdle
        /\ DecoratorIdle /\ RetryIdle /\ MauticIdle /\ BackfillIdle
        /\ ArchiveIdle /\ ImagesIdle /\ LoggerIdle /\ HtmlIdle
        /\ SweepersIdle

SpecClassifier == InitClassifier /\ [][ClassifierNext]_vars

InitSweepers ==
    SweepersInit /\ PipelineIdle /\ SelectorIdle /\ IssueIdle
        /\ PrefilterIdle /\ SignalSelectorIdle /\ IssueDateIdle
        /\ DecoratorIdle /\ RetryIdle /\ MauticIdle /\ BackfillIdle
        /\ ArchiveIdle /\ ImagesIdle /\ ClassifierIdle /\ LoggerIdle
        /\ HtmlIdle

SpecSweepers == InitSweepers /\ [][SweepersNext]_vars

\* ========================================================================
\* Claims about the pipeline job
\* ========================================================================

\* The order of the stages as the specification states it.
ClaimedOrder ==
    <<"ingest", "direct_feed_ingest", "score", "extract_newsletters",
      "browserbase_retry", "prefilter">>

StageFinished(s) == stage_state[s] \in {"returned", "raised", "skipped"}

RunEnded == pipeline_pc \in {"returned", "raised"}

C7_NonBlockingContinues ==
    \A s \in {"extract_newsletters", "browserbase_retry"} :
        stage_state[s] = "raised" =>
            /\ pipeline_results.entries[ResultKey(s)] = FailedEntry(ErrorOf(s))
            /\ pipeline_results.error # ErrorOf(s)
            /\ pipeline_pc \in {"completed", "finally", "returned", "raised"}
                  => stage_state["prefilter"] \in {"returned", "raised"}
            /\ pipeline_results.status = "failed"
                  => stage_state["prefilter"] = "raised"

C7_Witness ==
    /\ stage_state["extract_newsletters"] = "raised"
    /\ stage_state["browserbase_retry"] = "raised"
    /\ stage_state["prefilter"] = "returned"
    /\ pipeline_pc = "returned"
    /\ pipeline_results.status = "completed"

\* C8: when ingest, direct_feed_ingest, score or prefilter raises, the run
\* fails: status is "failed", the error is recorded, and no later stage of
\* the run is executed.
C8_BlockingFails ==
    \A i \in 1..Len(ClaimedOrder) :
        (/\ ClaimedOrder[i] \in {"ingest", "direct_feed_ingest", "score", "prefilter"}
         /\ stage_state[ClaimedOrder[i]] = "raised")
        => /\ pipeline_results.status = "failed"
           /\ pipeline_results.error = ErrorOf(ClaimedOrder[i])
           /\ pipeline_pc \in {"finally", "raised"}
           /\ \A j \in 1..Len(ClaimedOrder) :
                 j > i => stage_state[ClaimedOrder[j]] = "notrun"

C8_Witness ==
    /\ stage_state["score"] = "raised"
    /\ pipeline_pc = "raised"
    /\ pipeline_results.pipeline_completed_at

\* The number of new articles of this run, from the two ingest results.
NewArticlesThisRun ==
    GetArticlesIngested(pipeline_results.entries["ingest"])
        + GetArticlesIngested(pipeline_results.entries["direct_feeds"])

\* C9: the scoring stage runs if and only if the number of new articles of
\* the run (ingest plus direct-feed ingest) is greater than zero; otherwise
\* it is recorded as skipped.
C9_ScoreIffNewArticles ==
    /\ stage_state["score"] \in {"running", "returned", "raised", "hung"}
          => NewArticlesThisRun > 0
    /\ stage_state["score"] = "skipped"
          => /\ NewArticlesThisRun = 0
             /\ pipeline_results.entries["ai_scoring"] = SkippedEntry
    /\ stage_state["extract_newsletters"] # "notrun"
          => stage_state["score"] # "notrun"

C9_Witness ==
    /\ stage_state["score"] = "returned"
    /\ GetArticlesIngested(pipeline_results.entries["ingest"]) = 0
    /\ GetArticlesIngested(pipeline_results.entries["direct_feeds"]) > 0

\* C10: every stage has a deadline, so a stage that never returns cannot
\* keep the pipeline run from terminating: from a stage that hangs, the run
\* still reaches its end.
C10_HungStageIsCancelled ==
    \A s \in Stages : (stage_state[s] = "hung") ~> RunEnded

\* ========================================================================
\* Claims about the Pivot 5 selector
\* ========================================================================

\* The Issue this run of the selector wrote (the last row, once
\* write_selected_slots returned a record id), and the Issues it found.
IssuesWritten ==
    IF sel_results.record_id # ""
    THEN {selected_slots_table[Len(selected_slots_table)]}
    ELSE {}

IssuesBefore ==
    IF sel_results.record_id # ""
    THEN SubSeq(selected_slots_table, 1, Len(selected_slots_table) - 1)
    ELSE selected_slots_table

FilledSlots(issue) == {n \in Slots : issue.slots[n] # EmptySlot}

\* C1: no two slots of an Issue written by the selector reference the same
\* story: neither a story ID nor a fingerprint (pivotId) occurs in two slots.
C1_NoDuplicateStoryInIssue ==
    \A issue \in IssuesWritten :
        \A m \in FilledSlots(issue) : \A n \in FilledSlots(issue) :
            m # n =>
                /\ issue.slots[m].storyId = "" \/ issue.slots[m].storyId # issue.slots[n].storyId
                /\ issue.slots[m].pivotId = "" \/ issue.slots[m].pivotId # issue.slots[n].pivotId

\* C2: no story in a slot of a newly written Issue appears, by story ID,
\* fingerprint or case-insensitive headline, in an Issue of the last 14 days.
C2_NoStoryOfRecentIssue ==
    LET recent == ExtractRecentIssuesData(IssuesBefore)
    IN  \A issue \in IssuesWritten : \A n \in FilledSlots(issue) :
            /\ issue.slots[n].storyId \notin recent.storyIds
            /\ issue.slots[n].pivotId \notin recent.pivotIds
            /\ Lower(issue.slots[n].headline) \notin {Lower(h) : h \in recent.headlines}

\* The source of the story with this story ID.
SourceOfStory(id) ==
    LET rows == {i \in DOMAIN PrefilterLog : PrefilterLog[i].storyID = id}
    IN  IF rows = {} THEN "" ELSE PrefilterLog[CHOOSE i \in rows : TRUE].source_id

\* C3: in every Issue written by the selector no source is the source of
\* more than 2 of the selected stories, whatever the model returns.
C3_AtMostTwoPerSource ==
    \A issue \in IssuesWritten :
        \A src \in {PrefilterLog[i].source_id : i \in DOMAIN PrefilterLog} :
            Cardinality({n \in FilledSlots(issue) :
                            SourceOfStory(issue.slots[n].storyId) = src}) <= 2

\* C4: in every Issue written by the selector each featured company appears
\* in at most one slot, whatever the model returns.
C4_CompanyAtMostOnce ==
    IssuesWritten # {} =>
        \A i \in DOMAIN cumulative_state.selectedCompanies :
            \A j \in DOMAIN cumulative_state.selectedCompanies :
                i # j => cumulative_state.selectedCompanies[i]
                            # cumulative_state.selectedCompanies[j]

\* ========================================================================
\* Claims about the Issue status
\* ========================================================================

\* The statuses of the life cycle, in order.
StatusChain == <<"pending", "decorated", "compiled", "next-send", "sent">>

InChain(st) == \E i \in DOMAIN StatusChain : StatusChain[i] = st

Rank(st) == CHOOSE i \in DOMAIN StatusChain : StatusChain[i] = st

\* A step from status `old` to status `new` is not a step back in the chain.
NoRegress(old, new) == (InChain(old) /\ InChain(new)) => Rank(new) >= Rank(old)

\* C5: under any sequence of decorate, compile (auto-detected or with an
\* explicit issue id) and scheduled-send sweep operations, the status of an
\* Issue never returns to an earlier status of pending, decorated, compiled,
\* next-send, sent.
C5_StatusNeverRegresses ==
    [][ /\ \A id \in SignalIssueIds :
             NoRegress(signal_issues[id].status, signal_issues'[id].status)
        /\ \A r \in FinalIds :
             NoRegress(issues_final[r].status, issues_final'[r].status) ]_vars

\* ========================================================================
\* Claims about the prefilter
\* ========================================================================

\* The rows of the Pre-Filter Log, by position.
LogRows == DOMAIN prefilter_log

\* An error of this slot is in results["errors"].
PrefilterSlotFailed(s) == \E e \in pf_results.errors : e.slot = s

\* C11: within one prefilter run at most one row is written for any pair
\* of story fingerprint (pivotId) and slot.
C11_OneRowPerFingerprintAndSlot ==
    \A i \in LogRows : \A j \in LogRows :
        (/\ i # j
         /\ prefilter_log[i].date_prefiltered = prefilter_log[j].date_prefiltered
         /\ prefilter_log[i].slot = prefilter_log[j].slot)
        => prefilter_log[i].pivotId # prefilter_log[j].pivotId

\* C12: a run in which the classifier call or the write of some slot failed
\* does not end before the classifier was called for every slot.
C12_FailedSlotLeavesOthersAttempted ==
    \A s \in PrefilterSlots :
        (PrefilterSlotFailed(s) /\ pf_pc \in {"done", "failed"})
        => pf_attempted = PrefilterSlots

C12_Witness ==
    /\ pf_pc = "done"
    /\ [slot |-> 1, source |-> "classifier", kind |-> "error"] \in pf_results.errors
    /\ \E i \in LogRows : prefilter_log[i].slot = NumPrefilterSlots

\* Every story built for a slot before the current one has its row in the
\* table, unless the write of that slot was reported as failed.
EarlierSlotsPersisted ==
    \A pair \in written_story_slot_pairs :
        pair[2] < pf_slot =>
            \/ \E i \in LogRows :
                  /\ prefilter_log[i].storyID = pair[1]
                  /\ prefilter_log[i].slot = pair[2]
                  /\ prefilter_log[i].date_prefiltered = pf_run
            \/ \E e \in pf_results.errors : e.slot = pair[2] /\ e.kind = "write_error"

C14_NoRowForYesterdaysStory ==
    yesterday_data = ExtractYesterdayData(yesterday_issue)
    => \A i \in LogRows :
          /\ prefilter_log[i].pivotId \notin yesterday_data.pivotIds
          /\ prefilter_log[i].headline \notin yesterday_data.headlines

\* C15: when the classifier returned no match for slot 1 and the store took
\* the write of the company filter, every article of the batch whose
\* headline names a Tier 1 company has exactly one row with slot 1.
C15_CompanyFilterAddsToSlot1 ==
    (/\ pf_slot > 1
     /\ slot1_ai_matches = <<>>
     /\ ~PrefilterSlotFailed(1))
    => \A k \in DOMAIN slot_batch :
          CompaniesInHeadline(slot_batch[k].headline) # {}
          => Cardinality({i \in LogRows :
                            /\ prefilter_log[i].storyID = slot_batch[k].story_id
                            /\ prefilter_log[i].slot = 1
                            /\ prefilter_log[i].date_prefiltered = pf_run}) = 1

C15_Witness ==
    /\ pf_pc = "done"
    /\ slot1_ai_matches = <<>>
    /\ ~PrefilterSlotFailed(1)
    /\ \E i \in LogRows :
          /\ prefilter_log[i].storyID = "recA"
          /\ prefilter_log[i].slot = 1
          /\ CompaniesInHeadline(prefilter_log[i].headline) = {"nvidia"}

\* C16: a second run over the same input adds no row whose fingerprint
\* (pivotId) and slot are those of a row of an earlier run.
C16_RerunAddsNoDuplicateRow ==
    \A i \in LogRows : \A j \in LogRows :
        prefilter_log[i].date_prefiltered # prefilter_log[j].date_prefiltered
        => ~(/\ prefilter_log[i].pivotId = prefilter_log[j].pivotId
             /\ prefilter_log[i].slot = prefilter_log[j].slot)

\* ========================================================================
\* More claims about the Pivot 5 selector
\* ========================================================================

\* The story IDs of the slots filled so far, in slot order.
FilledStoryIds ==
    LET filled == SelectSeq([n \in Slots |-> issue_data.slots[n]],
                            LAMBDA f : f # EmptySlot)
    IN  [i \in DOMAIN filled |-> filled[i].storyId]

SlotsWithoutCandidates ==
    {sel_results.errors[k].slot : k \in {j \in DOMAIN sel_results.errors :
        sel_results.errors[j].error = "All candidates already selected"}}

\* C18: a slot whose candidates are all duplicates is skipped and stays
\* empty, and when another slot was filled and the write did not fail the
\* Issue is created with the slots that were selected.
C18_EmptySlotSkippedIssueCreated ==
    \A n \in SlotsWithoutCandidates :
        /\ issue_data.slots[n] = EmptySlot
        /\ (/\ sel_pc = "done"
            /\ sel_results.slots_filled > 0
            /\ \A k \in DOMAIN sel_results.errors :
                  sel_results.errors[k].error # "write_slots")
           => /\ IssuesWritten = {issue_data}
              /\ Cardinality(FilledSlots(issue_data)) = sel_results.slots_filled

C18_Witness ==
    /\ sel_pc = "done"
    /\ SlotsWithoutCandidates # {}
    /\ IssuesWritten = {issue_data}
    /\ FilledSlots(issue_data) # {}
    /\ FilledSlots(issue_data) # Slots

\* C19: no two Issue rows of the store carry the same issue_id.
C19_IssueIdUnique ==
    \A i \in DOMAIN selected_slots_table : \A j \in DOMAIN selected_slots_table :
        i # j => selected_slots_table[i].issue_id # selected_slots_table[j].issue_id

\* ========================================================================
\* Claims about the Signal selector
\* ========================================================================

\* The quick-hits and the main sections an Issue row records.
QuickHits(issue) == {i \in SignalNumbers : issue.signals[i] # NoSignalStory}

SectionPivotIds(issue) ==
    {issue.sections[k].pivot_id : k \in MainSectionKeys} \ {""}

\* C20: in an Issue the Signal selector created, no quick-hit has the
\* pivotId of another quick-hit, of a main section of the Issue, or of a
\* story used in a Signal Issue of the last 14 days.
C20_QuickHitsDeduplicated ==
    \A k \in DOMAIN signal_slots_table :
        LET issue == signal_slots_table[k]
        IN  \A i \in QuickHits(issue) :
               /\ \A j \in QuickHits(issue) \ {i} :
                     issue.signals[i].pivot_id # issue.signals[j].pivot_id
               /\ issue.signals[i].pivot_id \notin SectionPivotIds(issue)
               /\ issue.signals[i].pivot_id \notin used_pivot_ids

\* ========================================================================
\* Claims about the issue date
\* ========================================================================

\* The civil date of the run in America/New_York: four hours behind UTC in
\* daylight time, five otherwise.
CivilDay == LocalDay(utc_now, IF dst THEN EST_OFFSET - 1 ELSE EST_OFFSET)

\* The first Monday-to-Friday day after a day.
NextPublishingDay(day) ==
    CHOOSE d \in (day + 1)..(day + 3) :
        /\ Weekday(d) < 5
        /\ \A e \in (day + 1)..(d - 1) : Weekday(e) >= 5

\* C21: the Issue of a selector run is dated on the next publishing day
\* after the civil date of the run in America/New_York, for Pivot 5 and for
\* Signal.
C21_IssueOnNextPublishingDay ==
    date_pc = "done" =>
        /\ issue_date_iso = NextPublishingDay(CivilDay)
        /\ signal_issue_date_iso = NextPublishingDay(CivilDay)

\* ========================================================================
\* Claims about the decorator
\* ========================================================================

\* The slots of the Issue that carry a story, and those this run recorded
\* as failed.
SlotsToDecorate == {n \in Slots : pivot_issue.pivotId[n] # ""}

SlotsFailed ==
    {dec_results.errors[k].slot : k \in DOMAIN dec_results.errors} \ {0}

\* C22: a run that found the pending Issue and ended with every slot
\* decorated or recorded as failed, and whose status update did not raise,
\* leaves the Issue decorated.
C22_AllSlotsDoneSetsDecorated ==
    (/\ dec_pc = "done"
     /\ dec_results.issue_id # ""
     /\ Cardinality(SlotsToDecorate) = dec_results.decorated + Cardinality(SlotsFailed)
     /\ \A k \in DOMAIN dec_results.errors : dec_results.errors[k].error # "update_status")
        => pivot_issue.status = "decorated"

\* C23: the Issue Stories table holds at most one row per Issue and slot.
C23_OneStoryPerIssueAndSlot ==
    \A i \in DOMAIN issue_stories : \A j \in DOMAIN issue_stories :
        (/\ issue_stories[i].issue_id = issue_stories[j].issue_id
         /\ issue_stories[i].slot_order = issue_stories[j].slot_order)
            => i = j

\* ========================================================================
\* Claims about compile and the scheduled-send sweep
\* ========================================================================

\* C24: a successful compile of an Issue in decorated status leaves the
\* Issue in next-send.
C24_CompileEndsInNextSend ==
    [][ \A issue_id \in CompileArguments :
           (CompileSignalHtml(issue_id) /\ compile_results'.compiled)
              => \A id \in SignalIssueIds :
                    (/\ compile_results'.issue_id = id
                     /\ signal_issues[id].status = "decorated")
                       => signal_issues'[id].status = "next-send" ]_vars

\* C25: a compile that fails (the Issue is not found, it has no stories,
\* the HTML build or the update raises) changes the status of no Issue.
C25_FailedCompileKeepsStatus ==
    [][ \A issue_id \in CompileArguments :
           (CompileSignalHtml(issue_id) /\ ~compile_results'.compiled)
              => UNCHANGED signal_issues ]_vars

C25_Witness ==
    /\ ~compile_results.compiled
    /\ "fatal" \in compile_results.errors
    /\ compile_results.issue_id \in SignalIssueIds
    /\ signal_issues[compile_results.issue_id].status = "decorated"

\* The scheduled records a handled sweep step moved to next-send.
Reclassified ==
    {r \in FinalIds : /\ issues_final[r].status = "scheduled"
                      /\ issues_final'[r].status = "next-send"}

C26_RecompileGivesSameHtml ==
    (/\ html_pc = "done"
     /\ html_issue.issue_date # ""
     /\ ~FromIsoformatRaises(html_issue.issue_date))
        => second_html = first_html

\* ========================================================================
\* Claims about the execution logger
\* ========================================================================

\* C28: complete() does not raise to its caller, whether the database
\* connection is missing, the insert fails or closing the connection fails.
\* Stated for a summary that json.dumps accepts.
C28_CompleteNeverRaises ==
    log_summary # "not_json" => log_pc # "raised"

\* ========================================================================
\* Claims about the Browserbase retry
\* ========================================================================

\* C29: over the runs of the retry job on one day, the extractor is called
\* at most once for a Select.
C29_RetryAttemptedOnce ==
    \A r \in Range(SelectIds) : scrape_calls[r] <= 1

\* ========================================================================
\* Claims about the email gateway adapter
\* ========================================================================

\* C30: a send whose first request the gateway answers with 500, and whose
\* next request it would answer with 200, returns instead of raising.
C30_ServerErrorRetried ==
    ( /\ mautic_call.op = "send_email"
      /\ mautic_call.first_request < MaxRequests
      /\ gateway_answers[mautic_call.first_request] = 500
      /\ gateway_answers[mautic_call.first_request + 1] = 200 )
        => mautic_outcome = "returned"

\* ========================================================================
\* Claims about the backfill
\* ========================================================================

\* C31: no two rows of the Articles table hold the same pivot_id.
C31_NoTwoArticlesShareFingerprint ==
    \A i, j \in DOMAIN articles_table :
        i # j => articles_table[i] # articles_table[j]

\* ========================================================================
\* Claims about the archive
\* ========================================================================

\* C32: the archive never holds two rows with the same issue_id.
C32_OneArchiveRowPerIssue ==
    \A i, j \in DOMAIN archive_table :
        i # j => archive_table[i].issue_id # archive_table[j].issue_id

\* ========================================================================
\* Claims about the image adapter and the image sweep
\* ========================================================================

\* C33: with both generators configured, generate_image calls the primary,
\* calls the fallback when the primary failed for a reason other than its
\* key, and does not call the fallback when the primary refused the key.
C33_FallbackOnlyOnNonAuthFailure ==
    (img_job = "regenerate_image" /\ gemini_api_key /\ openai_api_key) =>
        /\ img_call.primary # "not_called"
        /\ img_call.primary \in {"upstream_error", "empty"}
              => img_call.fallback # "not_called"
        /\ img_call.primary = "auth_error" => img_call.fallback = "not_called"

\* C34: when an image sweep has ended, no story that its filter selects
\* (image_status pending or needs_image) is left in that status: each is
\* generated with an image_url or failed with an error.
C34_SweepSettlesPendingStories ==
    (img_job = "generate_images" /\ img_pc # "") =>
        \A r \in DecorationRecords :
            \/ /\ decorations[r].image_status = "generated"
               /\ decorations[r].image_url # ""
            \/ /\ decorations[r].image_status = "failed"
               /\ decorations[r].image_error # ""

\* ========================================================================
\* Claims about the chunked classifier operation
\* ========================================================================

\* C35: the API is called at most three times for one chunk, whatever the
\* kinds of the failures.
C35_AtMostThreeAttempts ==
    \A c \in 1..MaxChunks : Len(chunk_attempts[c]) <= 3

\* A chunk has failed three times, each time in another way, and the
\* operation has gone on to the next chunk.
C35_Witness ==
    /\ chunk_attempts[1] = <<"malformed", "rate_limit", "error">>
    /\ cl_chunk = 2

LastOutcome(c) == chunk_attempts[c][Len(chunk_attempts[c])]

ChunkFailed(c) == LastOutcome(c) \in FailureOutcomes

RECURSIVE MatchesOfChunks(_)
MatchesOfChunks(c) ==
    IF c = 0 THEN <<>>
    ELSE MatchesOfChunks(c - 1) \o ChunkMatches(c, LastOutcome(c))

\* C36: an operation with a chunk that succeeded returns the matches of
\* its successful chunks; an operation all of whose chunks failed ends in
\* a failure its caller sees.
C36_FailsOnlyWhenAllChunksFail ==
    (cl_pc \in {"returned", "raised"} /\ cl_chunks > 0) =>
        IF \A c \in 1..cl_chunks : ChunkFailed(c)
        THEN cl_pc = "raised"
        ELSE cl_pc = "returned" /\ all_matches = MatchesOfChunks(cl_chunks)

\* ========================================================================
\* Claims about the recorded selection
\* ========================================================================

\* C37: the storyId a slot iteration records in the Issue, and adds to
\* selectedToday, is the storyID of one of the candidates that were
\* available to the slot after deduplication.
C37_RecordedStoryIsAvailableCandidate ==
    [][\A candidates \in CandidateLists \ {<<>>}, selection \in Selections :
          LET available == AvailableCandidates(candidates)
          IN  (available # <<>> /\ sel_pc = "slots"
                  /\ SlotRecorded(selection, available))
              => issue_data'.slots[slot].storyId
                    \in {available[i].storyID : i \in DOMAIN available}]_vars

\* ========================================================================
\* Claims about the written pairs of the prefilter
\* ========================================================================

\* The rows of this run that the table holds for a slot.
PersistedRows(s) ==
    {i \in LogRows : prefilter_log[i].slot = s /\ prefilter_log[i].date_prefiltered = pf_run}

\* C38: every (story, slot) pair in written_story_slot_pairs has its row
\* of this run in the table, and the count reported for a slot is the
\* number of rows of this run the table holds for it.
C38_CountedOnlyIfPersisted ==
    /\ \A pair \in written_story_slot_pairs :
          \E i \in PersistedRows(pair[2]) : prefilter_log[i].storyID = pair[1]
    /\ \A s \in PrefilterSlots :
          pf_results.slot_counts[s] = Cardinality(PersistedRows(s))

\* ========================================================================
\* Claims about the fields shared by the Signal selector and decorator
\* ========================================================================

\* The section configurations of the decorator for what the selector
\* filled with a pivot id in an Issue.
SectionsFilled(issue) ==
    {cfg \in SectionConfigs :
        \/ /\ cfg.signal_num = 0
           /\ \E k \in DOMAIN SIGNAL_SELECTION_ORDER :
                 /\ SIGNAL_SELECTION_ORDER[k].slot = cfg.source_slot
                 /\ issue.sections[SIGNAL_SELECTION_ORDER[k].section_key].pivot_id # ""
        \/ /\ cfg.signal_num # 0
           /\ issue.signals[cfg.signal_num].pivot_id # ""}

\* C39: every section and quick-hit the selector filled in a created Issue
\* is picked up by the decorator from the stored fields.
C39_FilledSectionsPickedUp ==
    \A r \in DOMAIN signal_slots_table :
        SectionsFilled(signal_slots_table[r])
            \subseteq SectionsPickedUp(SignalIssueFields(signal_slots_table[r]))

\* ========================================================================
\* Claims about sweeps that follow or overlap each other
\* ========================================================================

\* C40: no Issue causes two send jobs to be enqueued.
C40_EnqueuedAtMostOnce ==
    \A r \in FinalIds : send_jobs[r] <= 1

====
